---- MODULE Spec2Model ----
(***************************************************************************)
(* OCR post-processing plugins of ocr_postprocess.cpp:                     *)
(*   paddleocr_recognize  (CTC greedy decode, classification attach)       *)
(*   crop_text_regions    (crop-ready adjustment of text_region boxes)     *)
(*   paddleocr_det        (probability map -> text_region detections)      *)
(*                                                                         *)
(* Real-valued quantities (float in the source) are fixed-point integers   *)
(* in units of 1/ONE; ONE is a multiple of 255 so that the dequantisation  *)
(* byte * (1/255) is exact.  A float division or multiplication is one     *)
(* rounded fixed-point operation (round to nearest).                       *)
(* Strings are sequences of one-character strings.                         *)
(***************************************************************************)
EXTENDS Integers, Sequences, FiniteSets, TLC

VARIABLES
    pc,       \* position of the running plugin invocation
    params,   \* the OcrParams bundle (read-only after init)
    roi,      \* the ROI: tensors, objects (detections), bbox, scaling bbox
    loc,      \* arguments and local variables of the invocation
    ret,      \* how the invocation ended and what it returned
    files     \* the image files the process has written to its working directory

vars == <<pc, params, roi, loc, ret, files>>

(***************************************************************************)
(* Fixed point                                                             *)
(***************************************************************************)
ONE == 255 * 40

Max2(a, b) == IF a >= b THEN a ELSE b
Min2(a, b) == IF a <= b THEN a ELSE b

\* a / b rounded to the nearest integer (half away from zero), b > 0
RDiv(a, b) == IF a >= 0 THEN (2 * a + b) \div (2 * b)
                        ELSE -((2 * (-a) + b) \div (2 * b))

\* x * y of two fixed-point values
FMul(x, y) == RDiv(x * y, ONE)
\* x / y of two fixed-point values, y > 0
FDiv(x, y) == RDiv(x * ONE, y)

RECURSIVE SumSeq(_)
SumSeq(s) ==
    IF s = <<>> THEN 0
    ELSE IF Len(s) = 1 THEN s[1]
    ELSE SumSeq(SubSeq(s, 1, Len(s) \div 2))
         + SumSeq(SubSeq(s, Len(s) \div 2 + 1, Len(s)))

RECURSIVE Flatten(_)
Flatten(ss) == IF ss = <<>> THEN <<>> ELSE ss[1] \o Flatten(Tail(ss))

(***************************************************************************)
(* Charset                                                                 *)
(***************************************************************************)
Sym(c) == <<c>>

DigitChars == <<"0","1","2","3","4","5","6","7","8","9">>
UpperChars == <<"A","B","C","D","E","F","G","H","I","J","K","L","M",
                "N","O","P","Q","R","S","T","U","V","W","X","Y","Z">>
LowerChars == <<"a","b","c","d","e","f","g","h","i","j","k","l","m",
                "n","o","p","q","r","s","t","u","v","w","x","y","z">>

SymsOf(chars) == [i \in 1..Len(chars) |-> Sym(chars[i])]

\* the grave accent character, which a TLA+ string literal cannot hold
GraveAccent == "U+0060"

\* load_default_charset: blank, 0-9, : ; < = > ? @, A-Z, [ \ ] ^ _ grave, a-z,
\* { | } ~, ! " # $ % & ' ( ) * + , - . /, space
load_default_charset ==
    << <<"b","l","a","n","k">> >>
    \o SymsOf(DigitChars)
    \o SymsOf(<<":", ";", "<", "=", ">", "?", "@">>)
    \o SymsOf(UpperChars)
    \o SymsOf(<<"[", "\\", "]", "^", "_", GraveAccent>>)
    \o SymsOf(LowerChars)
    \o SymsOf(<<"{", "|", "}", "~">>)
    \o SymsOf(<<"!", "\"", "#", "$", "%", "&", "'", "(", ")", "*", "+", ",", "-", ".", "/">>)
    \o SymsOf(<<" ">>)

(***************************************************************************)
(* Bounds of the explored inputs                                           *)
(***************************************************************************)
\* a recognition tensor [1, D1, D2] has D1 * D2 <= MaxCells
MaxCells == 6

\* quantised byte values a recognition tensor cell takes
ByteLevels == {0, 128, 255}

(***************************************************************************)
(* Tensor / ROI object model                                               *)
(***************************************************************************)
NullData == <<-1>>

Tensor(n, sh, d) == [name |-> n, shape |-> sh, data |-> d]

BBox(x, y, w, h) == [xmin |-> x, ymin |-> y, width |-> w, height |-> h]

Detection(lbl, box, conf) ==
    [label |-> lbl, bbox |-> box, confidence |-> conf, objects |-> <<>>]

Classification(cat, lbl, conf) ==
    [classification_type |-> cat, label |-> lbl, confidence |-> conf]

Returned(v) == [kind |-> "return", value |-> v]
Raised(msg) == [kind |-> "raise", value |-> msg]
Running     == [kind |-> "none", value |-> <<>>]

\* cv::imwrite of prob * 255 and of the binarised map: the debug images every
\* invocation leaves in the working directory, under fixed names
NoImages == [n \in {"debug_prob.png", "debug_binary.png"} |-> [written |-> FALSE]]

ProbImage(data, H, W) ==
    [written |-> TRUE,
     pixels |-> [k \in 1..(H * W) |-> ((data[k] * (ONE \div 255)) * 255) \div ONE]]

BinaryImage(fg) == [written |-> TRUE, pixels |-> fg]

\* get_tensor_by_name_or_fallback, for a ROI that has tensors: the first tensor
\* of that name, else the first tensor
NamedIdx(tensors, desired) == {i \in 1..Len(tensors) : tensors[i].name = desired}

get_tensor_by_name_or_fallback(tensors, desired) ==
    IF NamedIdx(tensors, desired) # {}
    THEN tensors[CHOOSE i \in NamedIdx(tensors, desired) :
                     \A j \in NamedIdx(tensors, desired) : i <= j]
    ELSE tensors[1]

(***************************************************************************)
(* paddleocr_recognize                                                     *)
(***************************************************************************)
MaxOf(row) == CHOOSE v \in {row[i] : i \in 1..Len(row)} :
                  \A i \in 1..Len(row) : row[i] <= v

\* std::max_element: position (0-based) of the first largest element
ArgMax(row) == (CHOOSE i \in 1..Len(row) :
                    /\ \A j \in 1..Len(row) : row[j] <= row[i]
                    /\ \A j \in 1..(i - 1) : row[j] < row[i]) - 1

\* exp(-d / ONE) * ONE for d >= 0, by its power series
RECURSIVE ExpSeries(_, _, _, _)
ExpSeries(d, k, term, acc) ==
    IF k > 14 \/ term = 0 THEN acc
    ELSE LET nt == RDiv(-(term * d), ONE * k)
         IN  ExpSeries(d, k + 1, nt, acc + nt)

ExpNeg(d) == ExpSeries(d, 1, ONE, ONE)

\* softmax1d: subtract the row max, exponentiate, normalise
softmax1d(v) ==
    LET m   == MaxOf(v)
        e   == [i \in 1..Len(v) |-> ExpNeg(m - v[i])]
        sum == SumSeq(e)
    IN  [i \in 1..Len(v) |-> RDiv(e[i] * ONE, sum)]

\* the copy & normalise loops: probs[t0][c] from the raw bytes
Dequant(byte) == byte * (ONE \div 255)

BuildProbs(data, C, T, layout_is_NCT) ==
    [t0 \in 1..T |->
        [c \in 1..C |->
            IF layout_is_NCT
            THEN Dequant(data[(c - 1) * T + (t0 - 1) + 1])
            ELSE Dequant(data[(t0 - 1) * C + (c - 1) + 1])]]

\* the emit test of the greedy CTC loop
CtcEmitsAnyNonBlank(idx, prev, blank_index) == idx # blank_index

CtcEmitsIgnoreBlank(idx, prev, blank_index) == idx # prev

CtcEmits(idx, prev, blank_index) == idx # blank_index /\ idx # prev

\* the symbol appended for class idx
SymbolClamped(charset, idx) ==
    charset[Max2(0, Min2(idx, Len(charset) - 1)) + 1]

SymbolOf(charset, idx) ==
    IF idx >= 0 /\ idx < Len(charset) THEN charset[idx + 1] ELSE Sym("?")

\* the literal test guarding the attach
AttachTest(out_text) == out_text # <<>> /\ out_text # <<" ">>

RecNoTensors ==
    /\ pc = "rec_entry"
    /\ roi.tensors = <<>>
    /\ pc' = "done"
    /\ ret' = Returned(<<>>)
    /\ UNCHANGED <<params, roi, loc>>
    /\ UNCHANGED files

RecChosen == get_tensor_by_name_or_fallback(roi.tensors, params.rec_output_name)

RecShapeErrorNoBatchCheck ==
    IF Len(RecChosen.shape) # 3 THEN "Unexpected recognizer rank (expected 3)"
    ELSE IF RecChosen.data = NullData THEN "Recognizer tensor not UINT8"
    ELSE "ok"

RecShapeError ==
    IF Len(RecChosen.shape) # 3 THEN "Unexpected recognizer rank (expected 3)"
    ELSE IF RecChosen.data = NullData THEN "Recognizer tensor not UINT8"
    ELSE IF RecChosen.shape[1] # 1 THEN "Recognizer expects N=1"
    ELSE "ok"

RecRaise ==
    /\ pc = "rec_entry"
    /\ roi.tensors # <<>>
    /\ RecShapeError # "ok"
    /\ pc' = "raised"
    /\ ret' = Raised(RecShapeError)
    /\ UNCHANGED <<params, roi, loc>>
    /\ UNCHANGED files

RecCopy ==
    /\ pc = "rec_entry"
    /\ roi.tensors # <<>>
    /\ RecShapeError = "ok"
    /\ LET D1 == RecChosen.shape[2]
           D2 == RecChosen.shape[3]
           C  == Min2(D1, D2)
           T  == Max2(D1, D2)
           layout_is_NCT == (D1 = C /\ D2 = T)
       IN  loc' = [fn |-> "paddleocr_recognize", C |-> C, T |-> T,
                   layout_is_NCT |-> layout_is_NCT,
                   probs |-> BuildProbs(RecChosen.data, C, T, layout_is_NCT),
                   out_text |-> <<>>, conf_sum |-> 0, conf_count |-> 0,
                   prev |-> -1, t0 |-> 0, conf |-> 0]
    /\ pc' = "rec_softmax"
    /\ UNCHANGED <<params, roi, ret>>
    /\ UNCHANGED files

RecSoftmax ==
    /\ pc = "rec_softmax"
    /\ loc' = [loc EXCEPT !.probs =
                  IF params.logits_are_softmax THEN loc.probs
                  ELSE [t0 \in 1..loc.T |-> softmax1d(loc.probs[t0])]]
    /\ pc' = "rec_decode"
    /\ UNCHANGED <<params, roi, ret>>
    /\ UNCHANGED files

RecDecodeStep ==
    /\ pc = "rec_decode"
    /\ loc.t0 < loc.T
    /\ LET row  == loc.probs[loc.t0 + 1]
           idx  == ArgMax(row)
           pmax == row[idx + 1]
           emit == CtcEmits(idx, loc.prev, params.blank_index)
       IN  loc' = [loc EXCEPT
                     !.out_text   = IF emit THEN @ \o SymbolOf(params.charset, idx) ELSE @,
                     !.conf_sum   = IF emit THEN @ + pmax ELSE @,
                     !.conf_count = IF emit THEN @ + 1 ELSE @,
                     !.prev       = idx,
                     !.t0         = @ + 1]
    /\ UNCHANGED <<pc, params, roi, ret>>
    /\ UNCHANGED files

RecConfOverT == IF loc.T > 0 THEN RDiv(loc.conf_sum, loc.T) ELSE 0

RecConf == IF loc.conf_count > 0 THEN RDiv(loc.conf_sum, loc.conf_count) ELSE 0

RecAttach ==
    /\ pc = "rec_decode"
    /\ loc.t0 = loc.T
    /\ loc' = [loc EXCEPT !.conf = RecConf]
    /\ roi' = IF AttachTest(loc.out_text) /\ roi.objects # <<>>
              THEN [roi EXCEPT !.objects[1].objects =
                        Append(@, Classification("license_plate", loc.out_text, RecConf))]
              ELSE roi
    /\ pc' = "done"
    /\ ret' = Returned(<<>>)
    /\ UNCHANGED params
    /\ UNCHANGED files

(***************************************************************************)
(* Inputs of paddleocr_recognize                                           *)
(***************************************************************************)
RecShapes == {<<1, d1, d2>> : d1 \in 1..MaxCells, d2 \in 1..MaxCells}

RecGoodTensors ==
    UNION {{Tensor("rec_out", sh, d) : d \in [1..(sh[2] * sh[3]) -> ByteLevels]} :
              sh \in {s \in RecShapes : s[2] * s[3] <= MaxCells}}

Zeros(n) == [i \in 1..n |-> 0]

\* tensors that paddleocr_recognize rejects
RecBadTensors ==
    { Tensor("rec_out", <<2, 2>>, Zeros(4)),
      Tensor("rec_out", <<1, 1, 2, 2>>, Zeros(4)),
      Tensor("rec_out", <<2, 2, 2>>, Zeros(8)),
      Tensor("rec_out", <<3>>, Zeros(3)),
      Tensor("rec_out", <<1, 2, 2>>, NullData) }

\* a well-formed tensor: timesteps x classes = 3 x 2, classes 1, 0, 1
RecSampleTensor == Tensor("rec_out", <<1, 3, 2>>, <<0, 255, 255, 0, 128, 255>>)

\* tensor lists exercising the lookup by name and the fallback to the first
RecTensorLists ==
    {<<>>}
    \cup {<<t>> : t \in RecBadTensors}
    \cup {<<[t EXCEPT !.name = "conv_out"]>> : t \in RecBadTensors \cup {RecSampleTensor}}
    \cup {<<b, RecSampleTensor>> : b \in {[t EXCEPT !.name = "aux"] : t \in RecBadTensors}}
    \cup {<<RecSampleTensor, b>> : b \in RecBadTensors}
    \cup {<<[RecSampleTensor EXCEPT !.name = "aux"], b>> : b \in RecBadTensors}

\* The [1,40,97] recognition tensor: 40 rows of 97 values, each row one-hot;
\* row 10 peaks at the class of "A", row 20 at the class of "B", every other
\* row at class 0 (blank)
ScenRows == 40
ScenCols == 97
ScenPeakA == 2^8 - 1
ScenPeakB == (4 * ScenPeakA) \div 5
ScenClassA == CHOOSE i \in 0..(Len(load_default_charset) - 1) : load_default_charset[i + 1] = Sym("A")
ScenClassB == CHOOSE i \in 0..(Len(load_default_charset) - 1) : load_default_charset[i + 1] = Sym("B")

ScenRowClass(r) == IF r = 10 THEN ScenClassA ELSE IF r = 20 THEN ScenClassB ELSE 0
ScenRowPeak(r) == IF r = 10 THEN ScenPeakA ELSE IF r = 20 THEN ScenPeakB ELSE 255

ScenarioTensor ==
    Tensor("rec_out", <<1, ScenRows, ScenCols>>,
           [i \in 1..(ScenRows * ScenCols) |->
               LET r == (i - 1) \div ScenCols
                   c == (i - 1) % ScenCols
               IN  IF c = ScenRowClass(r) THEN ScenRowPeak(r) ELSE 0])

SpaceCharset == << <<"b","l","a","n","k">>, Sym(" ") >>
OneLineCharset == << Sym("A") >>

RecCharsets == {load_default_charset, SpaceCharset, OneLineCharset}

UnitBox == BBox(0, 0, ONE, ONE)

RecObjectLists ==
    { <<>>,
      << Detection("text_region", BBox(ONE \div 4, ONE \div 4, ONE \div 2, ONE \div 4), ONE \div 2),
         Detection("text_region", BBox(0, ONE \div 2, ONE \div 2, ONE \div 4), ONE \div 4) >> }

RecParams(cs, bi, sm) ==
    [rec_output_name |-> "rec_out", charset |-> cs, blank_index |-> bi,
     logits_are_softmax |-> sm]

RoiScaled(ts, objs, sb) == [tensors |-> ts, objects |-> objs, bbox |-> UnitBox,
                            scaling_bbox |-> sb]

Roi(ts, objs) == RoiScaled(ts, objs, UnitBox)

RecInit ==
    /\ pc = "rec_entry"
    /\ loc = [fn |-> "paddleocr_recognize"]
    /\ ret = Running
    /\ \E cs \in RecCharsets, bi \in {0, 1}, sm \in BOOLEAN :
           params = RecParams(cs, bi, sm)
    /\ \E objs \in RecObjectLists :
           \/ \E t \in RecGoodTensors : roi = Roi(<<t>>, objs)
           \/ \E ts \in RecTensorLists : roi = Roi(ts, objs)
           \/ roi = Roi(<<ScenarioTensor>>, objs)
    /\ files = NoImages

RecNext ==
    \/ RecNoTensors
    \/ RecRaise
    \/ RecCopy
    \/ RecSoftmax
    \/ RecDecodeStep
    \/ RecAttach

SpecRec == RecInit /\ [][RecNext]_vars

(***************************************************************************)
(* Properties of paddleocr_recognize                                       *)
(***************************************************************************)
\* the invocation has built probs and is in, or past, the decode loop
RecDecoding ==
    /\ loc.fn = "paddleocr_recognize"
    /\ pc \in {"rec_decode", "done"}
    /\ ret.kind # "raise"
    /\ roi.tensors # <<>>

RecFinished == RecDecoding /\ pc = "done"

\* arg-max class (0-based) of timestep t (1-based)
ClassAt(t) == ArgMax(loc.probs[t])

\* timestep t is one the greedy CTC rule emits: non-blank, unlike its predecessor
EmitAt(t) ==
    /\ ClassAt(t) # params.blank_index
    /\ (t = 1 \/ ClassAt(t) # ClassAt(t - 1))

EmittedUpTo(n) == {t \in 1..n : EmitAt(t)}

RECURSIVE ExpectedText(_)
ExpectedText(n) ==
    IF n = 0 THEN <<>>
    ELSE ExpectedText(n - 1)
         \o (IF EmitAt(n)
             THEN (IF ClassAt(n) < Len(params.charset)
                   THEN params.charset[ClassAt(n) + 1] ELSE <<"?">>)
             ELSE <<>>)

RECURSIVE ExpectedConfSum(_)
ExpectedConfSum(n) ==
    IF n = 0 THEN 0
    ELSE ExpectedConfSum(n - 1) + (IF EmitAt(n) THEN MaxOf(loc.probs[n]) ELSE 0)

ExpectedConf(n) ==
    IF EmittedUpTo(n) = {} THEN 0
    ELSE RDiv(ExpectedConfSum(n), Cardinality(EmittedUpTo(n)))

AttachedTo(i) == roi.objects[i].objects

NothingAttached == \A i \in 1..Len(roi.objects) : AttachedTo(i) = <<>>

\* C2: in the decode loop, a timestep whose arg-max class equals the arg-max
\* class of the timestep before it never appends a character (and never adds
\* to the confidence count).
C2_RepeatedClassCollapses ==
    [][(/\ pc = "rec_decode"
        /\ loc.t0 >= 1
        /\ loc.t0 < loc.T
        /\ ClassAt(loc.t0 + 1) = ClassAt(loc.t0))
       => (/\ loc'.out_text = loc.out_text
           /\ loc'.conf_count = loc.conf_count)]_vars

\* a finished decode with two consecutive timesteps of one non-blank class
C2_Witness ==
    /\ RecFinished
    /\ \E t \in 2..loc.T :
          /\ ClassAt(t) = ClassAt(t - 1)
          /\ ClassAt(t) # params.blank_index
    /\ Len(loc.out_text) >= 1

\* C3: after n timesteps the text is the concatenation, in timestep order, of
\* the symbols of the timesteps whose class is not blank and differs from the
\* class of the timestep before; the confidence reported at the end is the mean
\* of the max probabilities of those timesteps, or 0 when there is none.
C3_DecodeIsCollapsedConcatenation ==
    RecDecoding =>
        /\ loc.out_text = ExpectedText(loc.t0)
        /\ loc.conf_sum = ExpectedConfSum(loc.t0)
        /\ loc.conf_count = Cardinality(EmittedUpTo(loc.t0))
        /\ (pc = "done" => loc.conf = ExpectedConf(loc.T))

\* a finished decode that emitted at least two timesteps and skipped one
C3_Witness ==
    /\ RecFinished
    /\ Cardinality(EmittedUpTo(loc.T)) >= 2
    /\ Cardinality(EmittedUpTo(loc.T)) < loc.T
    /\ loc.conf > 0

AllBlank == \A t \in 1..loc.T : ClassAt(t) = params.blank_index

\* C4: when every timestep's arg-max class is the blank index, the decode ends
\* with the empty string and confidence 0, and no Detection carries a
\* Classification.
C4_AllBlankDecodesEmpty ==
    (RecFinished /\ AllBlank) =>
        /\ loc.out_text = <<>>
        /\ loc.conf = 0
        /\ NothingAttached

\* a finished all-blank decode of several timesteps on a ROI with Detections
C4_Witness ==
    /\ RecFinished
    /\ AllBlank
    /\ loc.T >= 2
    /\ roi.objects # <<>>

\* C5: a timestep whose arg-max class is >= the charset size (and is neither
\* blank nor a repeat) appends exactly "?"; the invocation does not raise.
C5_OutOfRangeClassDecodesToPlaceholder ==
    (/\ RecDecoding
     /\ loc.t0 >= 1
     /\ ClassAt(loc.t0) >= Len(params.charset)
     /\ EmitAt(loc.t0))
    => /\ loc.out_text = ExpectedText(loc.t0 - 1) \o <<"?">>
       /\ ret.kind # "raise"

\* a finished decode whose last timestep had an out-of-range class
C5_Witness ==
    /\ RecFinished
    /\ ClassAt(loc.T) >= Len(params.charset)
    /\ EmitAt(loc.T)
    /\ loc.out_text # <<>>

IsScenario ==
    /\ loc.fn = "paddleocr_recognize"
    /\ roi.tensors = <<ScenarioTensor>>
    /\ params.charset = load_default_charset
    /\ params.blank_index = 0
    /\ params.logits_are_softmax

\* C6: the [1,40,97] tensor whose 40 rows spell "AB" decodes to "AB" with the
\* mean of the two peak probabilities as confidence, i.e. it is read as 40
\* timesteps of 97 classes.
C6_ScenarioDecodesAB ==
    (IsScenario /\ pc \in {"rec_softmax", "rec_decode", "done"}) =>
        /\ loc.T = ScenRows
        /\ loc.C = ScenCols
        /\ pc = "done" =>
              /\ loc.out_text = <<"A", "B">>
              /\ loc.conf = RDiv(Dequant(ScenPeakA) + Dequant(ScenPeakB), 2)

IsSpaceChar(c) == c \in {" ", "\t", "\n", "\r", "\f"}

PureWhitespace(text) == \A i \in 1..Len(text) : IsSpaceChar(text[i])

\* C7: the first Detection receives exactly one Classification ("license_plate",
\* text, confidence) when the text is non-empty and not pure whitespace, and
\* nothing when the text is empty or whitespace of any length; no other
\* Detection ever receives one.
C7_AttachIffNotWhitespace ==
    RecFinished =>
        /\ roi.objects # <<>> =>
              AttachedTo(1) =
                 (IF PureWhitespace(loc.out_text) THEN <<>>
                  ELSE <<Classification("license_plate", loc.out_text, loc.conf)>>)
        /\ \A i \in 2..Len(roi.objects) : AttachedTo(i) = <<>>

RecRejectedShape ==
    \/ Len(RecChosen.shape) # 3
    \/ RecChosen.shape[1] # 1

\* C8: when the chosen tensor's rank is not 3, or its batch dimension is not
\* 1, the invocation ends by raising and the ROI's Detections are as they
\* were: none carries a Classification.
C8_BadShapeRaises ==
    (/\ loc.fn = "paddleocr_recognize"
     /\ roi.tensors # <<>>
     /\ RecRejectedShape
     /\ pc # "rec_entry")
    => /\ pc = "raised"
       /\ ret.kind = "raise"
       /\ roi.objects \in RecObjectLists

\* a raised invocation on a rank-3 tensor of batch 2, on a ROI with Detections
C8_Witness ==
    /\ pc = "raised"
    /\ loc.fn = "paddleocr_recognize"
    /\ Len(RecChosen.shape) = 3
    /\ RecChosen.shape[1] = 2
    /\ roi.objects # <<>>

(***************************************************************************)
(* crop_text_regions                                                       *)
(***************************************************************************)
MAX_TEXT_REGIONS == 8
MIN_W_PX == 4
MIN_H_PX == 2
TARGET_MIN_H_PX == 12
PAD_X_PX == 4
PAD_Y_PX == 2

NullImage == [width |-> -1, height |-> -1]

clamp01NoUpper(v) == Max2(0, v)

clamp01(v) == Max2(0, Min2(ONE, v))

\* the letterbox branch: the box with the square padding undone
LetterboxFix(box, img_w, img_h) ==
    LET img_aspect == RDiv(img_w * ONE, img_h)
        wide  == img_aspect >= ONE
        scale == IF wide THEN FDiv(ONE, img_aspect) ELSE img_aspect
        pad_x == IF wide THEN RDiv(ONE - scale, 2) ELSE 0
        pad_y == IF wide THEN 0 ELSE RDiv(ONE - scale, 2)
        x0 == clamp01(FDiv(box.xmin - pad_x, scale))
        y0 == clamp01(FDiv(box.ymin - pad_y, scale))
        x1 == clamp01(FDiv(box.xmin + box.width - pad_x, scale))
        y1 == clamp01(FDiv(box.ymin + box.height - pad_y, scale))
    IN  BBox(x0, y0, Max2(0, x1 - x0), Max2(0, y1 - y0))

\* nx, ny, nw, nh as they stand at the size test
CropNormBox(box, img_w, img_h, use_letterbox) ==
    IF use_letterbox THEN LetterboxFix(box, img_w, img_h) ELSE box

CropTooSmall(nb, img_w, img_h) ==
    \/ nb.width * img_w < MIN_W_PX * ONE
    \/ nb.height * img_h < MIN_H_PX * ONE

\* the minimum-target-height branch
CropMinHeight(nb, img_h) ==
    IF nb.height * img_h < TARGET_MIN_H_PX * ONE
    THEN LET center_y == nb.ymin + RDiv(nb.height, 2)
             new_h_n  == RDiv(TARGET_MIN_H_PX * ONE, img_h)
             new_y    == center_y - RDiv(new_h_n, 2)
             ny       == clamp01(new_y)
         IN  BBox(nb.xmin, ny, nb.width, Min2(ONE - ny, new_h_n))
    ELSE nb

\* the final padding and the box handed to set_bbox
CropPadded(nb, img_w, img_h) ==
    LET pad_x_n == RDiv(PAD_X_PX * ONE, img_w)
        pad_y_n == RDiv(PAD_Y_PX * ONE, img_h)
        x0 == clamp01(nb.xmin - pad_x_n)
        y0 == clamp01(nb.ymin - pad_y_n)
        x1 == clamp01(nb.xmin + nb.width + pad_x_n)
        y1 == clamp01(nb.ymin + nb.height + pad_y_n)
    IN  BBox(x0, y0, Max2(0, x1 - x0), Max2(0, y1 - y0))

\* a null HailoROIPtr
NullRoi == [null |-> TRUE]

\* get_hailo_detections(roi) dereferences roi before the !roi test: with a
\* null roi the behaviour is undefined; the call either crashes on the
\* dereference or survives it and reaches the test
CropNullRoi ==
    /\ pc = "crop_entry"
    /\ roi = NullRoi
    /\ \/ pc' = "crashed" /\ ret' = Raised("null roi dereferenced")
       \/ pc' = "done" /\ ret' = Returned(<<>>)
    /\ UNCHANGED <<params, roi, loc>>
    /\ UNCHANGED files

CropMissing ==
    /\ pc = "crop_entry"
    /\ roi # NullRoi
    /\ loc.image = NullImage
    /\ pc' = "done"
    /\ ret' = Returned(<<>>)
    /\ UNCHANGED <<params, roi, loc>>
    /\ UNCHANGED files

CropBegin ==
    /\ pc = "crop_entry"
    /\ roi # NullRoi
    /\ loc.image # NullImage
    /\ loc' = [fn |-> "crop_text_regions", image |-> loc.image,
               use_letterbox |-> loc.use_letterbox,
               img_w |-> loc.image.width, img_h |-> loc.image.height,
               i |-> 1, count |-> 0, skipped_small |-> {}]
    /\ pc' = "crop_loop"
    /\ UNCHANGED <<params, roi, ret>>
    /\ UNCHANGED files

CropInLoopNoCap ==
    /\ pc = "crop_loop"
    /\ loc.i <= Len(roi.objects)

CropInLoop ==
    /\ pc = "crop_loop"
    /\ loc.i <= Len(roi.objects)
    /\ loc.count < MAX_TEXT_REGIONS

CropCur == roi.objects[loc.i]

CropCurNorm == CropNormBox(CropCur.bbox, loc.img_w, loc.img_h, loc.use_letterbox)

CropSkipLabel ==
    /\ CropInLoop
    /\ CropCur.label # "text_region"
    /\ loc' = [loc EXCEPT !.i = @ + 1]
    /\ UNCHANGED <<pc, params, roi, ret>>
    /\ UNCHANGED files

\* the continue of the size test; skipped_small records the positions for
\* which "Skipping text_region (too small in px)" was logged
CropSkipSmall ==
    /\ CropInLoop
    /\ CropCur.label = "text_region"
    /\ CropTooSmall(CropCurNorm, loc.img_w, loc.img_h)
    /\ loc' = [loc EXCEPT !.i = @ + 1, !.skipped_small = @ \cup {loc.i}]
    /\ UNCHANGED <<pc, params, roi, ret>>
    /\ UNCHANGED files

CropAdjust ==
    /\ CropInLoop
    /\ CropCur.label = "text_region"
    /\ ~CropTooSmall(CropCurNorm, loc.img_w, loc.img_h)
    /\ roi' = [roi EXCEPT !.objects[loc.i].bbox =
                  CropPadded(CropMinHeight(CropCurNorm, loc.img_h),
                             loc.img_w, loc.img_h)]
    /\ loc' = [loc EXCEPT !.i = @ + 1, !.count = @ + 1]
    /\ UNCHANGED <<pc, params, ret>>
    /\ UNCHANGED files

CropReturn ==
    /\ pc = "crop_loop"
    /\ ~(loc.i <= Len(roi.objects) /\ loc.count < MAX_TEXT_REGIONS)
    /\ ret' = Returned(IF loc.count > 0 THEN <<"roi">> ELSE <<>>)
    /\ pc' = "done"
    /\ UNCHANGED <<params, roi, loc>>
    /\ UNCHANGED files

(***************************************************************************)
(* Inputs of crop_text_regions                                             *)
(***************************************************************************)
\* a multi-detection ROI carries at most MaxCropDets detections
MaxCropDets == 3

Eighth(k) == (k * ONE) \div 8

CropBoxes ==
    {BBox(Eighth(x), Eighth(y), Eighth(w), Eighth(h)) :
        x \in {-1, 0, 3, 7}, y \in {-1, 0, 3, 7},
        w \in {-1, 0, 1, 2, 6, 9}, h \in {0, 1, 2, 6, 9}}

CropImages ==
    { [width |-> 16, height |-> 16], [width |-> 64, height |-> 16],
      [width |-> 16, height |-> 64], [width |-> 100, height |-> 30] }

CropDetPool ==
    { Detection("text_region", BBox(Eighth(1), Eighth(1), Eighth(4), Eighth(2)), ONE \div 2),
      Detection("text_region", BBox(Eighth(3), Eighth(7), Eighth(4), 0), ONE \div 2),
      Detection("person", BBox(0, 0, Eighth(4), Eighth(8)), ONE \div 2) }

CropDetLists ==
    UNION {[1..n -> CropDetPool] : n \in 0..MaxCropDets}

\* a long list has more than MAX_TEXT_REGIONS and at most CropLongLen
\* detections
CropLongLen == 10

\* long lists of one adjustable text_region, with other detections put at
\* some of the positions 2 and 5
CropLongLists ==
    { [i \in 1..n |-> IF i \in at THEN other
                      ELSE Detection("text_region",
                                     BBox(Eighth(1), Eighth(1), Eighth(4), Eighth(2)),
                                     ONE \div 2)] :
        n \in (MAX_TEXT_REGIONS + 1)..CropLongLen,
        at \in SUBSET {2, 5},
        other \in CropDetPool }

NoParams == [unused |-> TRUE]

CropInit ==
    /\ pc = "crop_entry"
    /\ ret = Running
    /\ params = NoParams
    /\ \E img \in CropImages \cup {NullImage}, lb \in BOOLEAN :
          loc = [fn |-> "crop_text_regions", image |-> img, use_letterbox |-> lb]
    /\ \/ \E b \in CropBoxes : roi = Roi(<<>>, <<Detection("text_region", b, ONE \div 2)>>)
       \/ \E ds \in CropDetLists \cup CropLongLists : roi = Roi(<<>>, ds)
       \/ roi = NullRoi
    /\ files = NoImages

CropNext ==
    \/ CropNullRoi
    \/ CropMissing
    \/ CropBegin
    \/ CropSkipLabel
    \/ CropSkipSmall
    \/ CropAdjust
    \/ CropReturn

SpecCrop == CropInit /\ [][CropNext]_vars

(***************************************************************************)
(* Properties of crop_text_regions                                         *)
(***************************************************************************)
NormalizedBox(b) ==
    /\ 0 <= b.xmin
    /\ b.xmin <= b.xmin + b.width
    /\ b.xmin + b.width <= ONE
    /\ 0 <= b.ymin
    /\ b.ymin <= b.ymin + b.height
    /\ b.ymin + b.height <= ONE

\* C1: every box crop_text_regions hands to set_bbox satisfies
\* 0 <= xmin <= xmin+width <= 1 and 0 <= ymin <= ymin+height <= 1.
C1_AdjustedBoxNormalized ==
    [][(/\ pc = "crop_loop"
        /\ pc' = "crop_loop"
        /\ loc'.count = loc.count + 1)
       => NormalizedBox(roi'.objects[loc.i].bbox)]_vars

\* a finished call, with the letterbox fix, that adjusted a box that was not
\* within [0,1] before the padding was clamped: it now reaches the right edge
C1_Witness ==
    /\ pc = "done"
    /\ loc.fn = "crop_text_regions"
    /\ ret.value = <<"roi">>
    /\ loc.use_letterbox
    /\ loc.count >= 1
    /\ \E i \in 1..Len(roi.objects) :
          /\ roi.objects[i].label = "text_region"
          /\ roi.objects[i].bbox.xmin > 0
          /\ roi.objects[i].bbox.xmin + roi.objects[i].bbox.width = ONE
          /\ roi.objects[i].bbox.ymin = 0

(***************************************************************************)
(* paddleocr_det: helpers                                                  *)
(***************************************************************************)
Rect(x, y, w, h) == [x |-> x, y |-> y, width |-> w, height |-> h]

\* int(std::round(v * num / den)) for v >= 0
RoundMul(v, num, den) == RDiv(v * num, den)

odd_at_least(v) == IF v % 2 = 0 THEN v + 1 ELSE v

\* shape resolution: <<H, W>> before the transposed-dimension swap
ResolveHW(sh, det_map_h, det_map_w) ==
    IF Len(sh) = 4 THEN
        IF sh[2] = 1 THEN <<sh[3], sh[4]>>
        ELSE IF sh[4] = 1 THEN <<sh[2], sh[3]>>
        ELSE <<sh[3], sh[4]>>
    ELSE IF Len(sh) = 3 THEN
        IF sh[3] = 1 THEN <<sh[1], sh[2]>>
        ELSE IF sh[1] = 1 THEN <<sh[2], sh[3]>>
        ELSE LET lo == Min2(sh[1], Min2(sh[2], sh[3]))
                 hi == Max2(sh[1], Max2(sh[2], sh[3]))
             IN  <<sh[1] + sh[2] + sh[3] - lo - hi, hi>>
    ELSE IF Len(sh) = 2 THEN <<sh[1], sh[2]>>
    ELSE <<det_map_h, det_map_w>>

SwapIfTransposedStrict(hw) ==
    IF hw[2] < 4 /\ hw[1] > 16 THEN <<hw[2], hw[1]>> ELSE hw

SwapIfTransposed(hw) ==
    IF hw[2] <= 4 /\ hw[1] > 16 THEN <<hw[2], hw[1]>> ELSE hw

Pixels(H, W) == (0..(W - 1)) \X (0..(H - 1))

\* tensor_to_probmap_u8_as_float: prob(y, x) of the first H*W bytes
ProbAt(data, W, px) == Dequant(data[px[2] * W + px[1] + 1])

\* cv::countNonZero(prob > thr)
CountAbove(data, H, W, thr) ==
    Cardinality({px \in Pixels(H, W) : ProbAt(data, W, px) > thr})

AdaptiveThreshUnclamped(thr, above, total) ==
    IF above * 1000 < 3 * total THEN RDiv(thr * 8, 10)
    ELSE IF above * 100 > 8 * total THEN RDiv(thr * 12, 10)
    ELSE thr

\* the adaptive threshold; fg ratio = above / (H*W) against 0.003 and 0.08
AdaptiveThresh(thr, above, total) ==
    IF above * 1000 < 3 * total THEN Max2((15 * ONE) \div 100, RDiv(thr * 8, 10))
    ELSE IF above * 100 > 8 * total THEN Min2((75 * ONE) \div 100, RDiv(thr * 12, 10))
    ELSE thr

\* cv::threshold(prob, bin, bin_thr, 1.0, THRESH_BINARY): the foreground pixels
Binarize(data, H, W, bin_thr) ==
    {px \in Pixels(H, W) : ProbAt(data, W, px) > bin_thr}

\* closing kernel size <<kx, ky>>; kscale is 1.0, 1.2 or 1.5 (in tenths)
KScale10(above, total) ==
    IF above * 100 < total THEN 10
    ELSE IF above * 100 > 6 * total THEN 15 ELSE 12

CloseKernel(H, W, above, total) ==
    << odd_at_least(Max2(3, RDiv(W * 12 * KScale10(above, total), 10000))),
       odd_at_least(Max2(1, RDiv(H * 6 * KScale10(above, total), 10000))) >>

Window(px, k) ==
    ((px[1] - (k[1] \div 2))..(px[1] + (k[1] \div 2)))
        \X ((px[2] - (k[2] \div 2))..(px[2] + (k[2] \div 2)))

\* dilation and erosion by a kx x ky rectangle anchored at its centre; pixels
\* outside the image do not take part
Dilate(S, H, W, k) == {px \in Pixels(H, W) : Window(px, k) \cap S # {}}
Erode(S, H, W, k) ==
    {px \in S : (Window(px, k) \cap Pixels(H, W)) \subseteq S}

MorphClose(S, H, W, k) == Erode(Dilate(S, H, W, k), H, W, k)

\* 8-connected components of a pixel set
Neigh8(px) == Window(px, <<3, 3>>)

RECURSIVE Flood(_, _, _)
Flood(comp, frontier, S) ==
    LET nb == (UNION {Neigh8(q) : q \in frontier} \cap S) \ comp
    IN  IF nb = {} THEN comp ELSE Flood(comp \cup nb, nb, S)

FirstPixel(S) == CHOOSE p \in S : \A q \in S :
                    p[2] < q[2] \/ (p[2] = q[2] /\ p[1] <= q[1])

RECURSIVE Components(_)
Components(S) ==
    IF S = {} THEN <<>>
    ELSE LET c == Flood({FirstPixel(S)}, {FirstPixel(S)}, S)
         IN  <<c>> \o Components(S \ c)

MinOfSet(S) == CHOOSE v \in S : \A w \in S : v <= w
MaxOfSet(S) == CHOOSE v \in S : \A w \in S : w <= v

\* cv::boundingRect of a component
boundingRect(c) ==
    LET xs == {p[1] : p \in c}
        ys == {p[2] : p \in c}
    IN  Rect(MinOfSet(xs), MinOfSet(ys),
             MaxOfSet(xs) - MinOfSet(xs) + 1, MaxOfSet(ys) - MinOfSet(ys) + 1)

\* findContours(RETR_EXTERNAL) + boundingRect: one rect per outer contour
ContourRects(S) ==
    LET cs == Components(S)
    IN  [i \in 1..Len(cs) |-> boundingRect(cs[i])]

\* nth_element at size/2: the upper median of the heights
MedianHeight(rects) ==
    CHOOSE m \in {rects[i].height : i \in 1..Len(rects)} :
        /\ Cardinality({i \in 1..Len(rects) : rects[i].height < m}) <= Len(rects) \div 2
        /\ Cardinality({i \in 1..Len(rects) : rects[i].height <= m}) > Len(rects) \div 2

GapPx(W, median_h) == Max2(3, Min2((W * 2) \div 100, median_h))

\* the orders std::sort may leave a list in: every permutation that is
\* sorted under the comparator (equal keys come out in an unspecified order)
\* comparator a.x < b.x
OrdersByLeftEdge(rects) ==
    {p \in Permutations(1..Len(rects)) :
        \A i \in 1..Len(rects) : \A j \in (i + 1)..Len(rects) :
            ~(rects[p[j]].x < rects[p[i]].x)}

\* comparator rects[a].width > rects[b].width
OrdersByWidthDesc(rects) ==
    {p \in Permutations(1..Len(rects)) :
        \A i \in 1..Len(rects) : \A j \in (i + 1)..Len(rects) :
            ~(rects[p[j]].width > rects[p[i]].width)}

Permuted(seq, p) == [i \in 1..Len(seq) |-> seq[p[i]]]

RectKeepRun(a, b) == a

\* cv::Rect |= : the bounding box of both (non-empty) rectangles
RectUnion(a, b) ==
    LET x0 == Min2(a.x, b.x)
        y0 == Min2(a.y, b.y)
        x1 == Max2(a.x + a.width, b.x + b.width)
        y1 == Max2(a.y + a.height, b.y + b.height)
    IN  Rect(x0, y0, x1 - x0, y1 - y0)

\* y_overlap_ratio(a, b) >= pct / 100
YOverlapAtLeast(a, b, pct) ==
    LET top   == Max2(a.y, b.y)
        bot   == Min2(a.y + a.height, b.y + b.height)
        inter == Max2(0, bot - top)
        min_h == Max2(1, Min2(a.height, b.height))
    IN  inter * 100 >= pct * min_h

\* the greedy left-to-right union over the sorted list, from element i on
RECURSIVE MergeRun(_, _, _, _, _)
MergeRun(sorted, i, run, max_gap_px, pct) ==
    IF i > Len(sorted) THEN <<run>>
    ELSE LET next == sorted[i]
             gap  == next.x - (run.x + run.width)
         IN  IF gap <= max_gap_px /\ YOverlapAtLeast(run, next, pct)
             THEN MergeRun(sorted, i + 1, RectUnion(run, next), max_gap_px, pct)
             ELSE <<run>> \o MergeRun(sorted, i + 1, next, max_gap_px, pct)

\* merge_horizontal_boxes on a list already put in one of the sorted orders
MergeSorted(sorted, max_gap_px, pct) ==
    IF Len(sorted) <= 1 THEN sorted
    ELSE MergeRun(sorted, 2, sorted[1], max_gap_px, pct)

clamp_rect_none(r, H, W) == r

clamp_rect_xywh(r, H, W) ==
    LET x == Max2(0, Min2(r.x, W - 1))
        y == Max2(0, Min2(r.y, H - 1))
    IN  Rect(x, y, Max2(1, Min2(r.width, W - x)), Max2(1, Min2(r.height, H - y)))

GrownInward(r, gx, gy) == Rect(r.x + gx, r.y + gy, r.width - 2 * gx, r.height - 2 * gy)

Grown(r, gx, gy) == Rect(r.x - gx, r.y - gy, r.width + 2 * gx, r.height + 2 * gy)

\* ar > n for ar = float(width) / max(1, height)
ArAbove(r, n) == r.width > n * Max2(1, r.height)

GrowIterWide(r, H, W) == clamp_rect_xywh(Grown(r, r.height, r.height), H, W)

\* one gentle grow iteration: gx from 15% and gy from 12% of the height
GrowIter(r, H, W) ==
    LET gx == Max2(1, Max2(2, RoundMul(r.height, 15, 100)))
        gy == Max2(1, Max2(1, RoundMul(r.height, 12, 100)))
    IN  clamp_rect_xywh(Grown(r, gx, gy), H, W)

\* the inflate loop body for one rectangle
InflateRect(r0, H, W, median_h) ==
    LET PAD_X0 == Max2(2, RoundMul(median_h, 60, 100))
        PAD_Y0 == Max2(1, RoundMul(median_h, 35, 100))
        base   == clamp_rect_xywh(Grown(r0, PAD_X0, PAD_Y0), H, W)
        addY   == Max2(PAD_Y0, RoundMul(base.height, 5, 10))
        thick  == IF ArAbove(base, 10)
                  THEN clamp_rect_xywh(Rect(base.x, base.y - (addY \div 2),
                                            base.width, base.height + addY), H, W)
                  ELSE base
    IN  GrowIter(GrowIter(thick, H, W), H, W)

\* region_score_rect: mean of prob over the rectangle cut to the map
region_score_rect(data, H, W, r) ==
    LET x0 == Max2(r.x, 0)
        y0 == Max2(r.y, 0)
        x1 == Min2(r.x + r.width, W)
        y1 == Min2(r.y + r.height, H)
    IN  IF x1 <= x0 \/ y1 <= y0 THEN 0
        ELSE RDiv(SumSeq([k \in 1..((x1 - x0) * (y1 - y0)) |->
                            ProbAt(data, W, << x0 + ((k - 1) % (x1 - x0)),
                                               y0 + ((k - 1) \div (x1 - x0)) >>)]),
                  (x1 - x0) * (y1 - y0))

\* hailo_common::create_flattened_bbox(bbox, scaling bbox)
create_flattened_bbox(bbox, parent) ==
    BBox(parent.xmin + FMul(bbox.xmin, parent.width),
         parent.ymin + FMul(bbox.ymin, parent.height),
         FMul(bbox.width, parent.width),
         FMul(bbox.height, parent.height))

\* a map rectangle in the ROI's frame coordinates
MapToFrame(r, roi_box, H, W) ==
    LET sx == RDiv(roi_box.width, W)
        sy == RDiv(roi_box.height, H)
    IN  BBox(r.x * sx + roi_box.xmin, r.y * sy + roi_box.ymin,
             r.width * sx, r.height * sy)

\* the four filters of the score/filter loop: the first that drops r, or "keep"
FilterVerdict(r, score, H, median_h, det_box_thresh) ==
    LET MIN_H     == Max2(3, RoundMul(H, 1, 100))
        area      == r.width * r.height
        score_min == IF ArAbove(r, 16)
                     THEN Max2((45 * ONE) \div 100, det_box_thresh - (15 * ONE) \div 100)
                     ELSE det_box_thresh
    IN  IF r.height < MIN_H THEN "minH"
        ELSE IF area < 80 \/ area * 10 < median_h * median_h * 4 THEN "area"
        ELSE IF r.width * 10 < 6 * Max2(1, r.height) \/ ArAbove(r, 80) THEN "AR"
        ELSE IF score < score_min THEN "score"
        ELSE "keep"

\* the break test after a kept rectangle
CapReached(n_outs, det_max_candidates) == n_outs >= det_max_candidates

\* the fallback's final tiny pad
FallbackPad(r, H, W) ==
    LET g == Max2(1, RoundMul(r.height, 1, 10))
    IN  clamp_rect_xywh(Grown(r, g, g), H, W)

FallbackKeepAll(n) == n

FallbackKeepN(n) == Min2(2, n)

(***************************************************************************)
(* paddleocr_det: the invocation                                           *)
(***************************************************************************)
DetChosen == get_tensor_by_name_or_fallback(roi.tensors, params.det_output_name)

DetNoTensorsRaise ==
    /\ pc = "det_entry"
    /\ roi.tensors = <<>>
    /\ pc' = "raised"
    /\ ret' = Raised("ROI has no tensors")
    /\ UNCHANGED <<params, roi, loc>>
    /\ UNCHANGED files

DetNoTensors ==
    /\ pc = "det_entry"
    /\ roi.tensors = <<>>
    /\ pc' = "done"
    /\ ret' = Returned(<<>>)
    /\ UNCHANGED <<params, roi, loc>>
    /\ UNCHANGED files

DetNullData ==
    /\ pc = "det_entry"
    /\ roi.tensors # <<>>
    /\ DetChosen.data = NullData
    /\ pc' = "raised"
    /\ ret' = Raised("Detector tensor has null data()")
    /\ UNCHANGED <<params, roi, loc>>
    /\ UNCHANGED files

\* 1)-3): H, W, the foreground count at the configured threshold, bin_thr
DetThreshold ==
    /\ pc = "det_entry"
    /\ roi.tensors # <<>>
    /\ DetChosen.data # NullData
    /\ LET hw    == SwapIfTransposed(ResolveHW(DetChosen.shape, params.det_map_h,
                                               params.det_map_w))
           above == CountAbove(DetChosen.data, hw[1], hw[2], params.det_bin_thresh)
       IN  loc' = [fn |-> "paddleocr_det", H |-> hw[1], W |-> hw[2],
                   above_default |-> above,
                   bin_thr |-> AdaptiveThresh(params.det_bin_thresh, above, hw[1] * hw[2]),
                   rects |-> <<>>, median_h |-> 0, i |-> 0, outs |-> <<>>,
                   idx |-> <<>>, path |-> "none"]
    /\ pc' = "det_contours"
    /\ UNCHANGED <<params, roi, ret>>
    /\ files' = [files EXCEPT !["debug_prob.png"] = ProbImage(DetChosen.data, loc'.H, loc'.W)]

\* 3)-4): binarise, close, contours -> rects
DetContours ==
    /\ pc = "det_contours"
    /\ LET bin    == Binarize(DetChosen.data, loc.H, loc.W, loc.bin_thr)
           k      == CloseKernel(loc.H, loc.W, loc.above_default, loc.H * loc.W)
           closed == MorphClose(bin, loc.H, loc.W, k)
       IN  loc' = [loc EXCEPT !.rects = ContourRects(closed)]
    /\ pc' = "det_rects"
    /\ UNCHANGED <<params, roi, ret>>
    /\ files' = [files EXCEPT !["debug_binary.png"] =
                        BinaryImage(Binarize(DetChosen.data, loc.H, loc.W, loc.bin_thr))]

DetNoRects ==
    /\ pc = "det_rects"
    /\ loc.rects = <<>>
    /\ pc' = "done"
    /\ ret' = Returned(<<>>)
    /\ UNCHANGED <<params, roi, loc>>
    /\ UNCHANGED files

\* 4.5): median height, gap, merge_horizontal_boxes
DetMerge ==
    /\ pc = "det_rects"
    /\ loc.rects # <<>>
    /\ LET median_h == MedianHeight(loc.rects)
       IN  \E p \in OrdersByLeftEdge(loc.rects) :
              loc' = [loc EXCEPT
                        !.median_h = median_h,
                        !.rects = IF Len(loc.rects) <= 1 THEN loc.rects
                                  ELSE MergeSorted(Permuted(loc.rects, p),
                                                   GapPx(loc.W, median_h), 45)]
    /\ pc' = "det_inflate"
    /\ UNCHANGED <<params, roi, ret>>
    /\ UNCHANGED files

\* 4.6): grow every rect
DetInflate ==
    /\ pc = "det_inflate"
    /\ loc' = [loc EXCEPT
                 !.rects = [i \in 1..Len(loc.rects) |->
                               InflateRect(loc.rects[i], loc.H, loc.W, loc.median_h)],
                 !.i = 1]
    /\ pc' = "det_filter"
    /\ UNCHANGED <<params, roi, ret>>
    /\ UNCHANGED files

DetRoiBox == create_flattened_bbox(roi.bbox, roi.scaling_bbox)

DetCur == loc.rects[loc.i]

DetCurScore == region_score_rect(DetChosen.data, loc.H, loc.W, DetCur)

DetCurVerdict ==
    FilterVerdict(DetCur, DetCurScore, loc.H, loc.median_h, params.det_box_thresh)

\* 5): one iteration of the score/filter loop that drops the rectangle
DetFilterDrop ==
    /\ pc = "det_filter"
    /\ loc.i <= Len(loc.rects)
    /\ DetCurVerdict # "keep"
    /\ loc' = [loc EXCEPT !.i = @ + 1]
    /\ UNCHANGED <<pc, params, roi, ret>>
    /\ UNCHANGED files

\* 5): one iteration that keeps the rectangle; leaves the loop at the cap
DetFilterKeep ==
    /\ pc = "det_filter"
    /\ loc.i <= Len(loc.rects)
    /\ DetCurVerdict = "keep"
    /\ LET d == Detection("text_region",
                          MapToFrame(DetCur, DetRoiBox, loc.H, loc.W), DetCurScore)
       IN  /\ loc' = [loc EXCEPT !.outs = Append(@, d), !.i = @ + 1, !.path = "filter"]
           /\ pc' = IF CapReached(Len(loc.outs) + 1, params.det_max_candidates)
                    THEN "det_emit" ELSE "det_filter"
    /\ UNCHANGED <<params, roi, ret>>
    /\ UNCHANGED files

\* the loop ran out of rectangles
DetFilterEnd ==
    /\ pc = "det_filter"
    /\ loc.i > Len(loc.rects)
    /\ pc' = IF loc.outs = <<>> THEN "det_fallback" ELSE "det_emit"
    /\ UNCHANGED <<params, roi, loc, ret>>
    /\ UNCHANGED files

\* 5.5): keep the widest rectangles, lightly padded
DetFallback ==
    /\ pc = "det_fallback"
    /\ \E p \in OrdersByWidthDesc(loc.rects) :
          loc' = [loc EXCEPT
                    !.path = "fallback",
                    !.idx = p,
                    !.outs = [k \in 1..FallbackKeepN(Len(loc.rects)) |->
                                LET r == FallbackPad(loc.rects[p[k]], loc.H, loc.W)
                                IN  Detection("text_region",
                                        MapToFrame(r, DetRoiBox, loc.H, loc.W),
                                        region_score_rect(DetChosen.data, loc.H, loc.W, r))]]
    /\ pc' = "det_emit"
    /\ UNCHANGED <<params, roi, ret>>
    /\ UNCHANGED files

\* add_detections, clear_scaling_bbox
DetEmit ==
    /\ pc = "det_emit"
    /\ roi' = [roi EXCEPT
                 !.objects = @ \o loc.outs,
                 !.scaling_bbox = IF params.letterbox_fix THEN UnitBox ELSE @]
    /\ pc' = "done"
    /\ ret' = Returned(<<>>)
    /\ UNCHANGED <<params, loc>>
    /\ UNCHANGED files

(***************************************************************************)
(* Inputs of paddleocr_det                                                 *)
(***************************************************************************)
\* a probability map carries at most MaxBlobs rectangular blobs
MaxBlobs == 3

\* the detector output tensor is [N, 1, H, W]
DetShape == <<1, 1, 15, 24>>

DetH == DetShape[3]
DetW == DetShape[4]

Blob(x, y, w, h, level) == [x |-> x, y |-> y, width |-> w, height |-> h, level |-> level]

BlobPool ==
    { Blob(3, 2, 1, 1, 255),     \* one pixel, top left
      Blob(7, 2, 1, 1, 255),     \* one pixel, 3 columns right of it
      Blob(3, 11, 2, 1, 255),    \* two pixels, bottom left
      Blob(12, 6, 8, 4, 230),    \* a dense 8 x 4 block
      Blob(18, 12, 3, 1, 70) }   \* a faint run, below the configured threshold

BlobSets == {bs \in SUBSET BlobPool : Cardinality(bs) <= MaxBlobs}

InBlob(b, px) ==
    /\ b.x <= px[1] /\ px[1] < b.x + b.width
    /\ b.y <= px[2] /\ px[2] < b.y + b.height

\* the bytes of an H x W map: the strongest blob covering a pixel, else bg
MapData(H, W, bg, blobs) ==
    [k \in 1..(H * W) |->
        LET px == << (k - 1) % W, (k - 1) \div W >>
            lv == {b.level : b \in {c \in blobs : InBlob(c, px)}}
        IN  IF lv = {} THEN bg ELSE MaxOfSet(lv)]

DetMaps == {MapData(DetH, DetW, bg, bs) : bg \in {0, 64}, bs \in BlobSets}

DetParams(bin, box, cap, lb) ==
    [det_bin_thresh |-> bin, det_box_thresh |-> box, det_max_candidates |-> cap,
     det_output_name |-> "det_out", det_map_h |-> DetH, det_map_w |-> DetW,
     letterbox_fix |-> lb]

Pct(n) == (n * ONE) \div 100

LetterboxedScaling == BBox(0, ONE \div 8, ONE, (6 * ONE) \div 8)

\* the end-to-end scenario: a [1,1,32,128] map, zero but for one 40 x 10 blob
\* of high probability, somewhere on the map
DetScenShape == <<1, 1, 32, 128>>

DetScenBlobs ==
    {Blob(at[1], at[2], 40, 10, lv) : at \in {<<0, 0>>, <<44, 11>>, <<88, 22>>},
                                      lv \in {255, 204}}

\* the scenario's ROI box: a width and a height that 128 and 32 divide, so
\* that roi_width / 128 and roi_height / 32 are exact in fixed point
DetScenBox == BBox(0, 0, 64 * DetScenShape[4], 256 * DetScenShape[3])

DetScenarioRois ==
    {[Roi(<<Tensor("det_out", DetScenShape,
                   MapData(DetScenShape[3], DetScenShape[4], 0, {b}))>>, <<>>)
        EXCEPT !.bbox = DetScenBox]
       : b \in DetScenBlobs}

DetInit ==
    /\ pc = "det_entry"
    /\ loc = [fn |-> "paddleocr_det"]
    /\ ret = Running
    /\ \/ /\ \E bin \in {Pct(10), Pct(30), Pct(90)}, box \in {Pct(20), Pct(60)},
                cap \in {0, 1, 2, 5}, lb \in BOOLEAN :
                params = DetParams(bin, box, cap, lb)
          /\ \/ \E d \in DetMaps, sb \in {UnitBox, LetterboxedScaling} :
                   roi = RoiScaled(<<Tensor("det_out", DetShape, d)>>, <<>>, sb)
             \/ roi = Roi(<<>>, <<>>)
             \/ roi = Roi(<<Tensor("det_out", DetShape, NullData)>>, <<>>)
             \/ \E b \in BlobPool :
                   roi = Roi(<<Tensor("conv_out", DetShape,
                                      MapData(DetH, DetW, 0, {b}))>>, <<>>)
       \/ /\ \E box \in {Pct(20), Pct(60)} : params = DetParams(Pct(30), box, 5, FALSE)
          /\ roi \in DetScenarioRois
    /\ files = NoImages

DetNext ==
    \/ DetNoTensors
    \/ DetNullData
    \/ DetThreshold
    \/ DetContours
    \/ DetNoRects
    \/ DetMerge
    \/ DetInflate
    \/ DetFilterDrop
    \/ DetFilterKeep
    \/ DetFilterEnd
    \/ DetFallback
    \/ DetEmit

SpecDet == DetInit /\ [][DetNext]_vars

(***************************************************************************)
(* Properties of paddleocr_det                                             *)
(***************************************************************************)
\* the invocation got past the threshold step
DetStarted == loc.fn = "paddleocr_det" /\ "bin_thr" \in DOMAIN loc

\* C9: the chosen binarization threshold lies within [0.15, 0.75], whatever
\* the map's density and the configured det_bin_thresh.
C9_BinThrWithinRange ==
    DetStarted => (Pct(15) <= loc.bin_thr /\ loc.bin_thr <= Pct(75))

\* C10: the Detections one invocation adds never exceed
\* det_max_candidates, on the filter path and on the fallback path.
C10_CountWithinCap ==
    (loc.fn = "paddleocr_det" /\ pc = "done")
        => Len(roi.objects) <= params.det_max_candidates

\* every rectangle left after merge and inflate fails one of the filters
DetAllRejected ==
    \A i \in 1..Len(loc.rects) :
        FilterVerdict(loc.rects[i],
                      region_score_rect(DetChosen.data, loc.H, loc.W, loc.rects[i]),
                      loc.H, loc.median_h, params.det_box_thresh) # "keep"

DetFinished == DetStarted /\ pc = "done"

\* C11: when R >= 1 rectangles exist after merge and inflate and the filters
\* reject every one, exactly min(2, R) Detections are emitted, and every chosen
\* rectangle is at least as wide (before the final pad) as every rectangle not
\* chosen.
C11_FallbackKeepsTwoWidest ==
    (DetFinished /\ loc.rects # <<>> /\ DetAllRejected) =>
        /\ loc.path = "fallback"
        /\ Len(roi.objects) = Min2(2, Len(loc.rects))
        /\ \A k \in 1..Len(roi.objects) : roi.objects[k].label = "text_region"
        /\ \A k \in 1..Min2(2, Len(loc.rects)) :
              \A j \in (Min2(2, Len(loc.rects)) + 1)..Len(loc.rects) :
                  loc.rects[loc.idx[k]].width >= loc.rects[loc.idx[j]].width

\* a finished fallback over three rectangles, the one left out strictly
\* narrower than a chosen one
C11_Witness ==
    /\ DetFinished /\ DetAllRejected
    /\ Len(loc.rects) >= 3
    /\ Len(roi.objects) = 2
    /\ loc.rects[loc.idx[3]].width < loc.rects[loc.idx[1]].width

\* box b lies within box outer
BoxWithin(b, outer) ==
    /\ outer.xmin <= b.xmin
    /\ b.xmin + b.width <= outer.xmin + outer.width
    /\ outer.ymin <= b.ymin
    /\ b.ymin + b.height <= outer.ymin + outer.height

\* C12: every Detection paddleocr_det builds, on the filter path and on the
\* fallback path, has its box within the ROI's flattened bounding box, and the
\* Detections it adds to a ROI whose flattened box is within [0,1] are within
\* [0,1].
C12_EmittedBoxWithinRoi ==
    /\ (DetStarted /\ pc # "done") =>
           \A k \in 1..Len(loc.outs) : BoxWithin(loc.outs[k].bbox, DetRoiBox)
    /\ DetFinished =>
           /\ roi.objects = loc.outs
           /\ \A k \in 1..Len(roi.objects) : BoxWithin(roi.objects[k].bbox, UnitBox)

\* a fallback on a letterboxed ROI about to add a box that reaches the right
\* edge of the ROI's flattened box
C12_Witness ==
    /\ DetStarted /\ pc = "det_emit"
    /\ loc.path = "fallback"
    /\ roi.scaling_bbox = LetterboxedScaling
    /\ \E k \in 1..Len(loc.outs) :
          loc.outs[k].bbox.xmin + loc.outs[k].bbox.width
              = DetRoiBox.xmin + DetRoiBox.width

(***************************************************************************)
(* merge_horizontal_boxes called on its own: once on a list of rectangles, *)
(* then once more on the list it left                                      *)
(***************************************************************************)
MergeTrivial ==
    /\ pc = "merge_entry"
    /\ Len(loc.rects) <= 1
    /\ loc' = [loc EXCEPT !.sorted = loc.rects, !.calls = @ + 1,
                          !.first = IF loc.calls = 0 THEN loc.rects ELSE @]
    /\ pc' = "merge_returned"
    /\ UNCHANGED <<params, roi, ret>>
    /\ UNCHANGED files

\* std::sort by left edge, in place
MergeSort ==
    /\ pc = "merge_entry"
    /\ Len(loc.rects) > 1
    /\ \E p \in OrdersByLeftEdge(loc.rects) :
          loc' = [loc EXCEPT !.sorted = Permuted(loc.rects, p),
                             !.rects = Permuted(loc.rects, p)]
    /\ pc' = "merge_sorted"
    /\ UNCHANGED <<params, roi, ret>>
    /\ UNCHANGED files

\* the merge loop, the last push and the swap
MergeLoop ==
    /\ pc = "merge_sorted"
    /\ LET merged == MergeSorted(loc.rects, loc.max_gap_px, loc.pct)
       IN  loc' = [loc EXCEPT !.rects = merged, !.calls = @ + 1,
                              !.first = IF loc.calls = 0 THEN merged ELSE @]
    /\ pc' = "merge_returned"
    /\ UNCHANGED <<params, roi, ret>>
    /\ UNCHANGED files

\* the caller hands the list it got back to merge_horizontal_boxes again
MergeAgain ==
    /\ pc = "merge_returned"
    /\ loc.calls < 2
    /\ loc' = [loc EXCEPT !.given = loc.rects]
    /\ pc' = "merge_entry"
    /\ UNCHANGED <<params, roi, ret>>
    /\ UNCHANGED files

\* a list handed to merge_horizontal_boxes has at most MaxMergeRects rectangles
MaxMergeRects == 3

\* rectangles with width > 0 and height > 0, as paddleocr_det collects them
MergeRectPool ==
    { Rect(0, 0, 2, 2), Rect(3, 10, 2, 2), Rect(6, 0, 2, 12),
      Rect(3, 1, 4, 2), Rect(0, 4, 3, 4), Rect(12, 0, 2, 3) }

MergeLists ==
    UNION { {l \in [1..n -> MergeRectPool] : \A i, j \in 1..n : i # j => l[i] # l[j]}
            : n \in 0..MaxMergeRects }

MergeInit ==
    /\ pc = "merge_entry"
    /\ params = NoParams
    /\ roi = Roi(<<>>, <<>>)
    /\ ret = Running
    /\ \E l \in MergeLists, g \in {0, 1, 3}, pct \in {45, 100} :
          loc = [fn |-> "merge_horizontal_boxes", given |-> l, rects |-> l,
                 sorted |-> <<>>, max_gap_px |-> g, pct |-> pct,
                 calls |-> 0, first |-> <<>>]
    /\ files = NoImages

MergeNext ==
    \/ MergeTrivial
    \/ MergeSort
    \/ MergeLoop
    \/ MergeAgain

SpecMerge == MergeInit /\ [][MergeNext]_vars

RectSet(rects) == {rects[i] : i \in 1..Len(rects)}

\* C13: applying merge_horizontal_boxes a second time, with the same
\* parameters, to the list the first application left yields the same set of
\* rectangles.
C13_MergeIdempotent ==
    (loc.fn = "merge_horizontal_boxes" /\ pc = "merge_returned" /\ loc.calls = 2)
        => RectSet(loc.rects) = RectSet(loc.first)

\* the bounding box of the rectangles s[a..b]
BoundingBoxOf(s, a, b) ==
    LET x0 == MinOfSet({s[i].x : i \in a..b})
        y0 == MinOfSet({s[i].y : i \in a..b})
        x1 == MaxOfSet({s[i].x + s[i].width : i \in a..b})
        y1 == MaxOfSet({s[i].y + s[i].height : i \in a..b})
    IN  Rect(x0, y0, x1 - x0, y1 - y0)

\* the rule of the claim: next joins the running union u when its horizontal
\* gap to u is <= max_gap and (intersection height) / (smaller height) is
\* >= pct / 100
JoinsRun(u, next, max_gap, pct) ==
    LET top   == IF u.y >= next.y THEN u.y ELSE next.y
        bot   == IF u.y + u.height <= next.y + next.height
                 THEN u.y + u.height ELSE next.y + next.height
        inter == IF bot > top THEN bot - top ELSE 0
        min_h == IF u.height <= next.height THEN u.height ELSE next.height
    IN  /\ next.x - (u.x + u.width) <= max_gap
        /\ inter * 100 >= pct * min_h

\* the runs that begin at the positions in starts cut s as the rule demands
\* and out lists their bounding boxes in order
IsRunPartition(s, starts, out, max_gap, pct) ==
    LET n == Len(s)
        RunStart(i) == MaxOfSet({b \in starts : b <= i})
        RunEnd(b) == MinOfSet({e \in b..n : e = n \/ (e + 1) \in starts})
    IN  /\ 1 \in starts
        /\ \A i \in 2..n :
              (i \notin starts) <=>
                  JoinsRun(BoundingBoxOf(s, RunStart(i - 1), i - 1), s[i], max_gap, pct)
        /\ Len(out) = Cardinality(starts)
        /\ \A k \in 1..Len(out) :
              \E b \in starts :
                  /\ Cardinality({c \in starts : c <= b}) = k
                  /\ out[k] = BoundingBoxOf(s, b, RunEnd(b))

\* C14: what merge_horizontal_boxes returns is no longer than what it was
\* given; the list it worked on is the given list in left-edge order; the
\* returned rectangles are the bounding boxes of consecutive runs of that
\* list, the runs partition it, and a rectangle joins the running union
\* exactly when its gap is <= max_gap and its vertical overlap ratio is
\* >= min_y_overlap_ratio.
C14_MergeIsRunPartition ==
    (loc.fn = "merge_horizontal_boxes" /\ pc = "merge_returned") =>
        /\ Len(loc.rects) <= Len(loc.given)
        /\ Len(loc.sorted) = Len(loc.given)
        /\ \E p \in Permutations(1..Len(loc.given)) :
              loc.sorted = [i \in 1..Len(loc.given) |-> loc.given[p[i]]]
        /\ Len(loc.given) > 1 =>
              \A i \in 1..(Len(loc.sorted) - 1) : loc.sorted[i].x <= loc.sorted[i + 1].x
        /\ IF loc.given = <<>> THEN loc.rects = <<>>
           ELSE \E starts \in SUBSET (1..Len(loc.sorted)) :
                   IsRunPartition(loc.sorted, starts, loc.rects,
                                  loc.max_gap_px, loc.pct)

\* a first call on three rectangles that merged two of them into one run and
\* left the third as a run of its own
C14_Witness ==
    /\ loc.fn = "merge_horizontal_boxes" /\ pc = "merge_returned"
    /\ loc.calls = 1
    /\ Len(loc.given) = 3
    /\ Len(loc.rects) = 2
    /\ loc.rects[1] = loc.sorted[1]
    /\ loc.rects[2] = BoundingBoxOf(loc.sorted, 2, 3)
    /\ loc.rects[2] # loc.sorted[2]

(***************************************************************************)
(* load_charset_from_file, as init calls it on a fresh OcrParams           *)
(***************************************************************************)
\* a file that std::ifstream cannot open; a file that opens is
\* [is_open |-> TRUE, lines |-> the lines std::getline yields]
NoFile == [is_open |-> FALSE, lines |-> <<>>]

load_charset_keep_empty(charset_path, file) ==
    IF charset_path = "" THEN Returned(load_default_charset)
    ELSE IF ~file.is_open THEN Raised("Failed to open charset file")
    ELSE Returned(file.lines)

\* what the call leaves in p.charset, or the error it throws
load_charset_from_file(charset_path, file) ==
    IF charset_path = "" THEN Returned(load_default_charset)
    ELSE IF ~file.is_open THEN Raised("Failed to open charset file")
    ELSE IF file.lines = <<>> THEN Returned(load_default_charset)
    ELSE Returned(file.lines)

CharsetLoaded ==
    /\ pc = "charset_entry"
    /\ load_charset_from_file(loc.charset_path, loc.file).kind = "return"
    /\ params' = [params EXCEPT
                    !.charset = load_charset_from_file(loc.charset_path, loc.file).value]
    /\ pc' = "done"
    /\ ret' = Returned(<<>>)
    /\ UNCHANGED <<roi, loc>>
    /\ UNCHANGED files

CharsetRaise ==
    /\ pc = "charset_entry"
    /\ load_charset_from_file(loc.charset_path, loc.file).kind = "raise"
    /\ pc' = "raised"
    /\ ret' = load_charset_from_file(loc.charset_path, loc.file)
    /\ UNCHANGED <<params, roi, loc>>
    /\ UNCHANGED files

\* a charset file has at most MaxFileLines lines
MaxFileLines == 3

CharsetFiles ==
    {NoFile} \cup
    { [is_open |-> TRUE, lines |-> l] :
        l \in UNION { [1..n -> {Sym("A"), Sym("B"), Sym(" "), <<>>}] : n \in 0..MaxFileLines } }

CharsetInit ==
    /\ pc = "charset_entry"
    /\ params = [charset |-> <<>>]
    /\ roi = Roi(<<>>, <<>>)
    /\ ret = Running
    /\ \E path \in {"", "charset.txt"}, f \in CharsetFiles :
          loc = [fn |-> "load_charset_from_file", charset_path |-> path, file |-> f]
    /\ files = NoImages

CharsetNext ==
    \/ CharsetLoaded
    \/ CharsetRaise

SpecCharset == CharsetInit /\ [][CharsetNext]_vars

CharsetCall == loc.fn = "load_charset_from_file"

EmptyFile == [is_open |-> TRUE, lines |-> <<>>]

\* C15: the table load_default_charset builds has exactly 97 entries with the
\* blank token at index 0, and loading an empty charset file leaves exactly
\* this table.
C15_DefaultCharsetHas97 ==
    (CharsetCall /\ pc = "done" /\ (loc.charset_path = "" \/ loc.file = EmptyFile)) =>
        /\ Len(params.charset) = 97
        /\ params.charset[1] = <<"b", "l", "a", "n", "k">>
        /\ params.charset = load_default_charset

DetEnded == loc.fn = "paddleocr_det" /\ pc \in {"done", "raised"}

\* the ROI offers no tensor of the configured name
DetNameMissing == NamedIdx(roi.tensors, params.det_output_name) = {}

\* C17 as claimed: when the ROI offers no tensor to fall back to, the
\* invocation ends by raising, and an invocation that finds no tensor of the
\* configured name never ends normally.
C17_MissingTensorRaises ==
    (DetEnded /\ DetNameMissing) => (pc = "raised" /\ ret.kind = "raise")

\* C17 as amended: on a ROI without tensors the invocation returns normally
\* and adds nothing; on a ROI with tensors none of which has the configured
\* name it works on the first tensor and raises only if that tensor has no
\* data.
C17_NoTensorReturnsQuietly ==
    (DetEnded /\ DetNameMissing) =>
        /\ roi.tensors = <<>> =>
              (pc = "done" /\ ret.kind = "return" /\ roi.objects = <<>>)
        /\ roi.tensors # <<>> =>
              /\ DetChosen = roi.tensors[1]
              /\ (pc = "raised") <=> (roi.tensors[1].data = NullData)
              /\ pc = "done" => (DetStarted /\ loc.H = roi.tensors[1].shape[3]
                                            /\ loc.W = roi.tensors[1].shape[4])

\* an invocation on a ROI without tensors that returned normally
C17_Witness ==
    /\ DetEnded
    /\ roi.tensors = <<>>
    /\ pc = "done"
    /\ ret.kind = "return"

(***************************************************************************)
(* Properties of crop_text_regions: the cap, the return value, the skips   *)
(***************************************************************************)
\* the loop of crop_text_regions is about to look at a Detection
CropLooking ==
    /\ loc.fn = "crop_text_regions" /\ pc = "crop_loop"
    /\ loc.i <= Len(roi.objects)

\* C18: at most 8 text_region Detections have their box adjusted in one call;
\* a Detection skipped as non-text_region or as too small is neither adjusted
\* nor counted.
C18_AtMostEightProcessed ==
    /\ []((loc.fn = "crop_text_regions" /\ pc \in {"crop_loop", "done"}
             /\ "count" \in DOMAIN loc) => loc.count <= 8)
    /\ [][(CropLooking /\ pc' = "crop_loop") =>
             IF /\ roi.objects[loc.i].label = "text_region"
                /\ ~CropTooSmall(CropCurNorm, loc.img_w, loc.img_h)
             THEN loc.count < 8 /\ loc'.count = loc.count + 1
             ELSE loc'.count = loc.count /\ roi' = roi]_vars

\* a finished call that adjusted 8 boxes, skipped a Detection on the way and
\* left a text_region unvisited
C18_Witness ==
    /\ loc.fn = "crop_text_regions" /\ pc = "done"
    /\ "count" \in DOMAIN loc
    /\ loc.count = 8
    /\ loc.i <= Len(roi.objects)
    /\ roi.objects[Len(roi.objects)].label = "text_region"
    /\ \E j \in 1..(loc.i - 1) : roi.objects[j].label # "text_region"

\* C19: the call returns a list holding exactly the ROI when at least one
\* text_region was adjusted, and an empty list otherwise, a missing image or
\* a missing ROI included.
C19_ReturnsRoiIffAdjusted ==
    (loc.fn = "crop_text_regions" /\ pc \notin {"crop_entry", "crop_loop"}) =>
        /\ pc = "done"
        /\ ret.kind = "return"
        /\ ret.value = IF "count" \in DOMAIN loc /\ loc.count >= 1
                       THEN <<"roi">> ELSE <<>>

\* C20: when the call returns the ROI for cropping, no Detection that the
\* size test found below 4 px wide or 2 px high (after the letterbox
\* correction) is among the text_region Detections the ROI carries.
C20_SmallBoxesDropped ==
    (loc.fn = "crop_text_regions" /\ pc = "done" /\ ret.value = <<"roi">>) =>
        \A j \in loc.skipped_small :
            ~(j <= Len(roi.objects) /\ roi.objects[j].label = "text_region")

(***************************************************************************)
(* paddleocr_det invoked from two worker threads, each on its own ROI,     *)
(* both with the same OcrParams bundle.  pc, roi, loc and ret hold one     *)
(* value per thread; params and files are the process's.  A step is the    *)
(* code between two accesses to something outside the invocation.          *)
(***************************************************************************)
Threads == {1, 2}

\* the score/filter loop from rectangle i on, as a function of its inputs
RECURSIVE FilterLoop(_, _, _, _)
FilterLoop(c, rects, i, outs) ==
    IF i > Len(rects) THEN outs
    ELSE LET r     == rects[i]
             score == region_score_rect(c.data, c.H, c.W, r)
             kept  == Append(outs, Detection("text_region",
                                  MapToFrame(r, c.roi_box, c.H, c.W), score))
         IN  IF FilterVerdict(r, score, c.H, c.median_h, c.p.det_box_thresh) # "keep"
             THEN FilterLoop(c, rects, i + 1, outs)
             ELSE IF CapReached(Len(kept), c.p.det_max_candidates) THEN kept
             ELSE FilterLoop(c, rects, i + 1, kept)

\* the lists the fallback can produce (one per order std::sort may leave)
FallbackOuts(c, rects) ==
    { [k \in 1..FallbackKeepN(Len(rects)) |->
          LET r == FallbackPad(rects[q[k]], c.H, c.W)
          IN  Detection("text_region", MapToFrame(r, c.roi_box, c.H, c.W),
                        region_score_rect(c.data, c.H, c.W, r))]
      : q \in OrdersByWidthDesc(rects) }

\* steps 4.5 to 5.5 for the rectangles of the contours: every `outs` they
\* can end with
BoxesOuts(p, r, H, W, rects) ==
    LET median_h == MedianHeight(rects)
        c == [data |-> get_tensor_by_name_or_fallback(r.tensors, p.det_output_name).data,
              H |-> H, W |-> W, median_h |-> median_h, p |-> p,
              roi_box |-> create_flattened_bbox(r.bbox, r.scaling_bbox)]
    IN  UNION { LET merged == IF Len(rects) <= 1 THEN rects
                              ELSE MergeSorted(Permuted(rects, q), GapPx(W, median_h), 45)
                    grown  == [i \in 1..Len(merged) |-> InflateRect(merged[i], H, W, median_h)]
                    kept   == FilterLoop(c, grown, 1, <<>>)
                IN  IF kept # <<>> THEN {kept} ELSE FallbackOuts(c, grown)
              : q \in OrdersByLeftEdge(rects) }

\* add_detections and clear_scaling_bbox on one ROI
Emitted(p, r, outs) ==
    IF outs = <<>> THEN r
    ELSE [r EXCEPT !.objects = @ \o outs,
                   !.scaling_bbox = IF p.letterbox_fix THEN UnitBox ELSE @]

\* the locations outside its own frame that a thread touches
ParamsLoc == <<"params">>
RoiLoc(t) == <<"roi", t>>
FileLoc(n) == <<"file", n>>

ThreadTensor(t) == get_tensor_by_name_or_fallback(roi[t].tensors, params.det_output_name)

Touch(t, reads, writes) ==
    [loc[t] EXCEPT !.reads = @ \cup reads, !.writes = @ \cup writes]

ThreadNoTensors(t) ==
    /\ pc[t] = "det_entry"
    /\ roi[t].tensors = <<>>
    /\ pc' = [pc EXCEPT ![t] = "done"]
    /\ ret' = [ret EXCEPT ![t] = Returned(<<>>)]
    /\ loc' = [loc EXCEPT ![t] = Touch(t, {RoiLoc(t)}, {})]
    /\ UNCHANGED <<params, roi, files>>

\* 1) to 3): thresholds read from the bundle, prob map written to debug_prob.png
ThreadProb(t) ==
    /\ pc[t] = "det_entry"
    /\ roi[t].tensors # <<>>
    /\ LET hw    == SwapIfTransposed(ResolveHW(ThreadTensor(t).shape, params.det_map_h,
                                               params.det_map_w))
           above == CountAbove(ThreadTensor(t).data, hw[1], hw[2], params.det_bin_thresh)
       IN  /\ loc' = [loc EXCEPT ![t] =
                        [Touch(t, {ParamsLoc, RoiLoc(t)}, {FileLoc("debug_prob.png")})
                           EXCEPT !.H = hw[1], !.W = hw[2], !.above_default = above,
                                  !.bin_thr = AdaptiveThresh(params.det_bin_thresh, above,
                                                             hw[1] * hw[2])]]
           /\ files' = [files EXCEPT !["debug_prob.png"] =
                          ProbImage(ThreadTensor(t).data, hw[1], hw[2])]
    /\ pc' = [pc EXCEPT ![t] = "det_contours"]
    /\ UNCHANGED <<params, roi, ret>>

\* 3) to 4): binary map written to debug_binary.png, closing, contours
ThreadBinary(t) ==
    /\ pc[t] = "det_contours"
    /\ LET bin    == Binarize(ThreadTensor(t).data, loc[t].H, loc[t].W, loc[t].bin_thr)
           k      == CloseKernel(loc[t].H, loc[t].W, loc[t].above_default,
                                 loc[t].H * loc[t].W)
           rects  == ContourRects(MorphClose(bin, loc[t].H, loc[t].W, k))
       IN  /\ loc' = [loc EXCEPT ![t] =
                        [Touch(t, {}, {FileLoc("debug_binary.png")})
                           EXCEPT !.rects = rects]]
           /\ files' = [files EXCEPT !["debug_binary.png"] = BinaryImage(bin)]
           /\ pc' = [pc EXCEPT ![t] = IF rects = <<>> THEN "done" ELSE "det_rects"]
           /\ ret' = [ret EXCEPT ![t] = IF rects = <<>> THEN Returned(<<>>) ELSE @]
    /\ UNCHANGED <<params, roi>>

\* 4.5) to 5.5): merge, inflate, filter, fallback
ThreadBoxes(t) ==
    /\ pc[t] = "det_rects"
    /\ \E outs \in BoxesOuts(params, roi[t], loc[t].H, loc[t].W, loc[t].rects) :
          loc' = [loc EXCEPT ![t] = [Touch(t, {ParamsLoc, RoiLoc(t)}, {})
                                       EXCEPT !.outs = outs]]
    /\ pc' = [pc EXCEPT ![t] = "det_emit"]
    /\ UNCHANGED <<params, roi, ret, files>>

ThreadEmit(t) ==
    /\ pc[t] = "det_emit"
    /\ roi' = [roi EXCEPT ![t] = Emitted(params, roi[t], loc[t].outs)]
    /\ loc' = [loc EXCEPT ![t] = Touch(t, {ParamsLoc}, {RoiLoc(t)})]
    /\ pc' = [pc EXCEPT ![t] = "done"]
    /\ ret' = [ret EXCEPT ![t] = Returned(<<>>)]
    /\ UNCHANGED <<params, files>>

\* the ROIs the two threads are given
ThreadMaps ==
    { MapData(DetH, DetW, 0, {Blob(12, 6, 8, 4, 230)}),
      MapData(DetH, DetW, 0, {Blob(3, 2, 1, 1, 255), Blob(3, 11, 2, 1, 255)}),
      MapData(DetH, DetW, 0, {}) }

ThreadRois ==
    {Roi(<<Tensor("det_out", DetShape, d)>>, <<>>) : d \in ThreadMaps}
        \cup {Roi(<<>>, <<>>)}

ThreadFrame(given) ==
    [fn |-> "paddleocr_det", given |-> given, H |-> 0, W |-> 0, above_default |-> 0,
     bin_thr |-> 0, rects |-> <<>>, outs |-> <<>>, reads |-> {}, writes |-> {}]

ConcInit ==
    /\ pc = [t \in Threads |-> "det_entry"]
    /\ ret = [t \in Threads |-> Running]
    /\ files = NoImages
    /\ \E bin \in {Pct(10), Pct(30)}, lb \in BOOLEAN :
          params = DetParams(bin, Pct(20), 5, lb)
    /\ roi \in [Threads -> ThreadRois]
    /\ loc = [t \in Threads |-> ThreadFrame(roi[t])]

ConcNext ==
    \E t \in Threads :
        \/ ThreadNoTensors(t)
        \/ ThreadProb(t)
        \/ ThreadBinary(t)
        \/ ThreadBoxes(t)
        \/ ThreadEmit(t)

SpecConc == ConcInit /\ [][ConcNext]_vars

\* what one invocation, run alone with bundle p on ROI r, can leave on r
DetOutcomes(p, r) ==
    IF r.tensors = <<>> THEN {r}
    ELSE LET t     == get_tensor_by_name_or_fallback(r.tensors, p.det_output_name)
             hw    == SwapIfTransposed(ResolveHW(t.shape, p.det_map_h, p.det_map_w))
             above == CountAbove(t.data, hw[1], hw[2], p.det_bin_thresh)
             bin   == Binarize(t.data, hw[1], hw[2],
                               AdaptiveThresh(p.det_bin_thresh, above, hw[1] * hw[2]))
             rects == ContourRects(MorphClose(bin, hw[1], hw[2],
                                      CloseKernel(hw[1], hw[2], above, hw[1] * hw[2])))
         IN  IF rects = <<>> THEN {r}
             ELSE {Emitted(p, r, outs) : outs \in BoxesOuts(p, r, hw[1], hw[2], rects)}

\* C21: two concurrent invocations on their own ROIs with one bundle share no
\* mutable state: no thread writes the bundle, no thread writes a location
\* the other reads or writes, and every thread that is done has left on its
\* ROI what it leaves when run alone.
C21_NoSharedMutableState ==
    \A t \in Threads :
        /\ ParamsLoc \notin loc[t].writes
        /\ \A u \in Threads \ {t} :
              loc[t].writes \cap (loc[u].reads \cup loc[u].writes) = {}
        /\ pc[t] = "done" => roi[t] \in DetOutcomes(params, loc[t].given)

(***************************************************************************)
(* The end-to-end detection scenario                                       *)
(***************************************************************************)
IsDetScenario ==
    /\ loc.fn = "paddleocr_det"
    /\ roi.tensors # <<>>
    /\ roi.tensors[1].shape = DetScenShape

\* the blob's pixel rectangle, read off the map
DetScenBlobRect ==
    boundingRect({px \in Pixels(DetScenShape[3], DetScenShape[4]) :
                    roi.tensors[1].data[px[2] * DetScenShape[4] + px[1] + 1] > 0})

\* what the inflate step adds on each side of a rectangle of height 10 when
\* the median height is 10: the base pad (0.6 and 0.35 of the median height)
\* and the two grow iterations (0.15 and 0.12 of the height, 18 then 22)
DetScenInflateX == 6 + 3 + 3
DetScenInflateY == 4 + 2 + 3

\* the fallback's pad: a tenth of the inflated height
DetScenFallbackPad == RDiv(10 + 2 * DetScenInflateY, 10)

\* the ROI carries exactly one text_region, whose box contains the blob's
\* rectangle scaled by roi_width/128 and roi_height/32 and is larger than it
\* by no more than padx columns and pady rows on each side
DetScenOneBoxWithin(padx, pady) ==
    LET blob == DetScenBlobRect
        sx   == RDiv(DetRoiBox.width, DetScenShape[4])
        sy   == RDiv(DetRoiBox.height, DetScenShape[3])
    IN  /\ Len(roi.objects) = 1
        /\ roi.objects[1].label = "text_region"
        /\ LET b == roi.objects[1].bbox
           IN  /\ b.xmin <= blob.x * sx + DetRoiBox.xmin
               /\ b.ymin <= blob.y * sy + DetRoiBox.ymin
               /\ b.xmin + b.width >= (blob.x + blob.width) * sx + DetRoiBox.xmin
               /\ b.ymin + b.height >= (blob.y + blob.height) * sy + DetRoiBox.ymin
               /\ b.width <= (blob.width + 2 * padx) * sx
               /\ b.height <= (blob.height + 2 * pady) * sy

\* C22: in the scenario (one 40 x 10 blob on a [1,1,32,128] map, det_bin_thresh
\* 0.3, identity scaling bbox) the invocation adds exactly one text_region; its
\* box contains the blob's rectangle in frame coordinates and exceeds it only
\* by the inflate padding.
C22_ScenarioBoxWithinInflatePad ==
    (IsDetScenario /\ pc = "done") =>
        DetScenOneBoxWithin(DetScenInflateX, DetScenInflateY)

\* C22 as the code has it: exactly one text_region that contains the blob; it
\* exceeds the blob by the inflate padding when the rectangle passed the score
\* filter, and by the fallback's pad on top of that when it did not.
C22_ScenarioBoxWithinPad ==
    (IsDetScenario /\ pc = "done") =>
        IF loc.path = "fallback"
        THEN DetScenOneBoxWithin(DetScenInflateX + DetScenFallbackPad,
                                 DetScenInflateY + DetScenFallbackPad)
        ELSE DetScenOneBoxWithin(DetScenInflateX, DetScenInflateY)

\* a finished scenario run whose one Detection came from the fallback, and one
\* whose Detection passed the filters
C22_Witness ==
    /\ IsDetScenario /\ pc = "done"
    /\ Len(roi.objects) = 1
    /\ loc.path = "fallback"
    /\ roi.objects[1].bbox.width > (40 + 2 * DetScenInflateX) * RDiv(DetRoiBox.width, 128)

(***************************************************************************)
(* The adaptive threshold's direction                                      *)
(***************************************************************************)
\* foreground ratio at the configured threshold below 0.3% / above 8%
DetSparse == loc.above_default * 1000 < 3 * (loc.H * loc.W)
DetDense  == loc.above_default * 100 > 8 * (loc.H * loc.W)

\* C23: for every configured det_bin_thresh the chosen threshold is at most
\* the configured one on a sparse map, at least the configured one on a dense
\* map, and the configured one otherwise.
C23_ThresholdMovesAsStated ==
    DetStarted =>
        IF DetSparse THEN loc.bin_thr <= params.det_bin_thresh
        ELSE IF DetDense THEN loc.bin_thr >= params.det_bin_thresh
        ELSE loc.bin_thr = params.det_bin_thresh

\* C23 with the clamp taken into account: the direction holds for a
\* configured threshold inside [0.15, 0.75]; a configured threshold below
\* 0.15 is raised to 0.15 on a sparse map and one above 0.75 is lowered to
\* 0.75 on a dense map.
C23_ThresholdMovesWithinClamp ==
    DetStarted =>
        IF DetSparse
        THEN IF params.det_bin_thresh >= Pct(15)
             THEN loc.bin_thr <= params.det_bin_thresh
             ELSE loc.bin_thr = Pct(15)
        ELSE IF DetDense
        THEN IF params.det_bin_thresh <= Pct(75)
             THEN loc.bin_thr >= params.det_bin_thresh
             ELSE loc.bin_thr = Pct(75)
        ELSE loc.bin_thr = params.det_bin_thresh

\* a sparse map with a configured threshold under the floor: the chosen
\* threshold is above the configured one
C23_Witness ==
    /\ DetStarted
    /\ DetSparse
    /\ loc.above_default > 0
    /\ params.det_bin_thresh < Pct(15)
    /\ loc.bin_thr > params.det_bin_thresh

(***************************************************************************)
(* The four filters of the score/filter loop, applied to one rectangle     *)
(***************************************************************************)
VerdictOf ==
    FilterVerdict(loc.r, loc.score, loc.H, loc.median_h, params.det_box_thresh)

\* one of the four `continue`s
VerdictDrop ==
    /\ pc = "verdict_entry"
    /\ VerdictOf # "keep"
    /\ pc' = "done"
    /\ ret' = Returned(<<"drop", VerdictOf>>)
    /\ UNCHANGED <<params, roi, loc, files>>

\* the rectangle reaches outs.emplace_back
VerdictKeep ==
    /\ pc = "verdict_entry"
    /\ VerdictOf = "keep"
    /\ pc' = "done"
    /\ ret' = Returned(<<"keep", VerdictOf>>)
    /\ UNCHANGED <<params, roi, loc, files>>

\* rectangles of a 32-row map, normal and elongated, with their mean score
VerdictRects ==
    {Rect(0, 0, w, h) : w \in {5, 40, 170, 340, 900}, h \in {2, 10, 20}}

VerdictInit ==
    /\ pc = "verdict_entry"
    /\ roi = Roi(<<>>, <<>>)
    /\ ret = Running
    /\ files = NoImages
    /\ \E box \in {Pct(20), Pct(50), Pct(60), Pct(90)} :
          params = DetParams(Pct(30), box, 5, FALSE)
    /\ \E r \in VerdictRects, sc \in {Pct(10), Pct(30), Pct(47), Pct(55), Pct(80), ONE},
          mh \in {4, 20} :
          loc = [fn |-> "score_filter", r |-> r, score |-> sc, H |-> 32, median_h |-> mh]

VerdictNext ==
    \/ VerdictDrop
    \/ VerdictKeep

SpecVerdict == VerdictInit /\ [][VerdictNext]_vars

\* C24: the score threshold applied to a rectangle of aspect ratio above 16
\* is never higher than det_box_thresh, so an elongated rectangle whose score
\* reaches det_box_thresh is not dropped by the score test.
C24_ElongatedThresholdRelaxed ==
    (loc.fn = "score_filter" /\ pc = "done"
       /\ loc.r.width > 16 * Max2(1, loc.r.height)
       /\ loc.score >= params.det_box_thresh)
      => ret.value # <<"drop", "score">>

(***************************************************************************)
(* Shape resolution of paddleocr_det, applied to one tensor shape          *)
(***************************************************************************)
ShapeResolve ==
    /\ pc = "shape_entry"
    /\ LET hw == SwapIfTransposed(ResolveHW(loc.shape, params.det_map_h, params.det_map_w))
       IN  /\ loc' = [loc EXCEPT !.H = hw[1], !.W = hw[2]]
           /\ ret' = Returned(hw)
    /\ pc' = "done"
    /\ UNCHANGED <<params, roi, files>>

\* tensor shapes of rank 0 to 5
MaxRank == 5

ShapeDims == {1, 3, 4, 17, 20}

ShapePool ==
    UNION {[1..n -> ShapeDims] : n \in 0..4}
        \cup {[i \in 1..n |-> d] : n \in 5..MaxRank, d \in ShapeDims}

ShapeInit ==
    /\ pc = "shape_entry"
    /\ roi = Roi(<<>>, <<>>)
    /\ ret = Running
    /\ files = NoImages
    /\ \E mh \in {3, 20}, mw \in {4, 17} :
          params = [det_map_h |-> mh, det_map_w |-> mw]
    /\ \E sh \in ShapePool : loc = [fn |-> "resolve_hw", shape |-> sh, H |-> 0, W |-> 0]

ShapeNext ==
    \/ ShapeResolve

SpecShape == ShapeInit /\ [][ShapeNext]_vars

\* the rule in words: <<H, W>> before the swap
StatedHW(sh, det_map_h, det_map_w) ==
    IF Len(sh) = 4 THEN
        IF sh[2] # 1 /\ sh[4] = 1 THEN <<sh[2], sh[3]>> ELSE <<sh[3], sh[4]>>
    ELSE IF Len(sh) = 3 THEN
        IF sh[3] = 1 THEN <<sh[1], sh[2]>>
        ELSE IF sh[1] = 1 THEN <<sh[2], sh[3]>>
        ELSE LET v == SortSeq(sh, LAMBDA a, b : a < b) IN <<v[2], v[3]>>
    ELSE IF Len(sh) = 2 THEN <<sh[1], sh[2]>>
    ELSE <<det_map_h, det_map_w>>

\* C25: shape resolution never raises and yields, for every rank, the pair
\* the rule names, with H and W exchanged exactly when W <= 4 and H > 16.
C25_ShapeResolutionTotal ==
    (loc.fn = "resolve_hw" /\ pc # "shape_entry") =>
        LET hw == StatedHW(loc.shape, params.det_map_h, params.det_map_w)
        IN  /\ pc = "done"
            /\ ret.kind = "return"
            /\ <<loc.H, loc.W>> = IF hw[2] <= 4 /\ hw[1] > 16
                                  THEN <<hw[2], hw[1]>> ELSE hw

\* an NHWC shape [N, 20, 4, 1] resolved to H = 20, W = 4 and then exchanged
C25_Witness ==
    /\ loc.fn = "resolve_hw" /\ pc = "done"
    /\ Len(loc.shape) = 4
    /\ loc.shape[2] = 20 /\ loc.shape[3] = 4 /\ loc.shape[4] = 1
    /\ loc.H = 4 /\ loc.W = 20

(***************************************************************************)
(* db_unclip_rect_iter and db_unclip_rect_iter_aniso.  Ratios and growth   *)
(* fractions are in hundredths.                                            *)
(***************************************************************************)
\* max(1, int(round((A / max(1.0, P)) * ratio))) for area A and perimeter P
UnclipDelta(r, ratio) ==
    Max2(1, RDiv(r.width * r.height * ratio,
                 Max2(1, 2 * (r.width + r.height)) * 100))

\* max(1, int(round(dim * max_grow_frac)))
UnclipMaxGrow(dim, frac) == Max2(1, RDiv(dim * frac, 100))

IsoCapNever(total, d, max_grow) == FALSE

\* the isotropic variant's cap test on one axis
IsoCapExceeded(total, d, max_grow) == total + d > max_grow

UnclipEmpty ==
    /\ pc = "unclip_entry"
    /\ (loc.r.width <= 0 \/ loc.r.height <= 0)
    /\ pc' = "done"
    /\ ret' = Returned(loc.r)
    /\ UNCHANGED <<params, roi, loc, files>>

UnclipEnter ==
    /\ pc = "unclip_entry"
    /\ ~(loc.r.width <= 0 \/ loc.r.height <= 0)
    /\ pc' = "unclip_loop"
    /\ UNCHANGED <<params, roi, loc, ret, files>>

IsoMaxGrow == UnclipMaxGrow(Max2(loc.W, loc.H), loc.frac_x)

IsoGrown == clamp_rect_xywh(Grown(loc.r, UnclipDelta(loc.r, loc.ratio_x),
                                 UnclipDelta(loc.r, loc.ratio_x)), loc.H, loc.W)

IsoStops ==
    \/ ~(loc.i < loc.iters)
    \/ IsoCapExceeded(loc.accx, UnclipDelta(loc.r, loc.ratio_x), IsoMaxGrow)
    \/ IsoCapExceeded(loc.accy, UnclipDelta(loc.r, loc.ratio_x), IsoMaxGrow)
    \/ IsoGrown = loc.r

\* one iteration of db_unclip_rect_iter that grows the rectangle
IsoGrow ==
    /\ pc = "unclip_loop"
    /\ loc.fn = "db_unclip_rect_iter"
    /\ ~IsoStops
    /\ loc' = [loc EXCEPT !.r = IsoGrown, !.i = @ + 1,
                          !.accx = @ + UnclipDelta(loc.r, loc.ratio_x),
                          !.accy = @ + UnclipDelta(loc.r, loc.ratio_x)]
    /\ UNCHANGED <<pc, params, roi, ret, files>>

\* the loop ends: iterations used up, cap reached, or no change
IsoStop ==
    /\ pc = "unclip_loop"
    /\ loc.fn = "db_unclip_rect_iter"
    /\ IsoStops
    /\ pc' = "done"
    /\ ret' = Returned(loc.r)
    /\ UNCHANGED <<params, roi, loc, files>>

AnisoDx ==
    Min2(UnclipDelta(loc.r, loc.ratio_x),
         Max2(0, UnclipMaxGrow(loc.W, loc.frac_x) - loc.accx))

AnisoDy ==
    Min2(UnclipDelta(loc.r, loc.ratio_y),
         Max2(0, UnclipMaxGrow(loc.H, loc.frac_y) - loc.accy))

AnisoStops == ~(loc.i < loc.iters) \/ (AnisoDx = 0 /\ AnisoDy = 0)

\* one iteration of db_unclip_rect_iter_aniso
AnisoGrow ==
    /\ pc = "unclip_loop"
    /\ loc.fn = "db_unclip_rect_iter_aniso"
    /\ ~AnisoStops
    /\ loc' = [loc EXCEPT !.r = clamp_rect_xywh(Grown(loc.r, AnisoDx, AnisoDy),
                                                loc.H, loc.W),
                          !.i = @ + 1,
                          !.accx = @ + AnisoDx, !.accy = @ + AnisoDy]
    /\ UNCHANGED <<pc, params, roi, ret, files>>

AnisoStop ==
    /\ pc = "unclip_loop"
    /\ loc.fn = "db_unclip_rect_iter_aniso"
    /\ AnisoStops
    /\ pc' = "done"
    /\ ret' = Returned(loc.r)
    /\ UNCHANGED <<params, roi, loc, files>>

\* at most MaxIters iterations are asked for
MaxIters == 4

UnclipImages == {<<24, 15>>, <<40, 6>>}

\* rectangles inside a W x H image (corners, borders, middle, the whole
\* image), and one of no width
UnclipRects(W, H) ==
    {Rect(x, y, w, h) : x \in {0, 3, W - 1}, y \in {0, 2, H - 1},
                        w \in {1, 5, W}, h \in {1, 4, H}}
        \cap {r \in [x : 0..W, y : 0..H, width : 1..W, height : 1..H] :
                 r.x + r.width <= W /\ r.y + r.height <= H}

UnclipFrame(fn, r, img, iters, rx, ry, fx, fy) ==
    [fn |-> fn, given |-> r, r |-> r, W |-> img[1], H |-> img[2], iters |-> iters,
     ratio_x |-> rx, ratio_y |-> ry, frac_x |-> fx, frac_y |-> fy,
     i |-> 0, accx |-> 0, accy |-> 0]

UnclipInit ==
    /\ pc = "unclip_entry"
    /\ params = NoParams
    /\ roi = Roi(<<>>, <<>>)
    /\ ret = Running
    /\ files = NoImages
    /\ \E img \in UnclipImages, iters \in 0..MaxIters :
          \E r \in UnclipRects(img[1], img[2]) \cup {Rect(2, 2, 0, 3)} :
             \/ \E ratio \in {50, 150, 400}, frac \in {20, 60} :
                   loc = UnclipFrame("db_unclip_rect_iter", r, img, iters,
                                     ratio, ratio, frac, frac)
             \/ \E rx \in {50, 400}, ry \in {50, 150} :
                   loc = UnclipFrame("db_unclip_rect_iter_aniso", r, img, iters,
                                     rx, ry, 15, 8)

UnclipNext ==
    \/ UnclipEmpty
    \/ UnclipEnter
    \/ IsoGrow
    \/ IsoStop
    \/ AnisoGrow
    \/ AnisoStop

SpecUnclip == UnclipInit /\ [][UnclipNext]_vars

RectInside(r, W, H) ==
    /\ 0 <= r.x /\ r.x + r.width <= W
    /\ 0 <= r.y /\ r.y + r.height <= H

\* C26: given a rectangle of positive size inside the W x H image, both
\* variants run at most `iters` iterations, the rectangle stays inside the
\* image throughout and is returned, and the growth accumulated on each axis
\* stays within the cap: max(1, round(max(W,H) * max_grow_frac)) for the
\* isotropic variant, max(1, round(W * max_grow_frac_x)) and
\* max(1, round(H * max_grow_frac_y)) for the anisotropic one.
C26_UnclipBounded ==
    (/\ loc.fn \in {"db_unclip_rect_iter", "db_unclip_rect_iter_aniso"}
     /\ loc.given.width > 0 /\ loc.given.height > 0) =>
        /\ loc.i <= loc.iters
        /\ RectInside(loc.r, loc.W, loc.H)
        /\ loc.r.width >= 1 /\ loc.r.height >= 1
        /\ pc = "done" => ret = Returned(loc.r)
        /\ IF loc.fn = "db_unclip_rect_iter"
           THEN LET cap == Max2(1, RDiv(Max2(loc.W, loc.H) * loc.frac_x, 100))
                IN  loc.accx <= cap /\ loc.accy <= cap
           ELSE /\ loc.accx <= Max2(1, RDiv(loc.W * loc.frac_x, 100))
                /\ loc.accy <= Max2(1, RDiv(loc.H * loc.frac_y, 100))

\* a call that stopped on the cap with iterations to spare, after growing
C26_Witness ==
    /\ loc.fn = "db_unclip_rect_iter" /\ pc = "done"
    /\ loc.i >= 1 /\ loc.i < loc.iters
    /\ loc.r # loc.given
    /\ loc.accx + UnclipDelta(loc.r, loc.ratio_x)
          > Max2(1, RDiv(Max2(loc.W, loc.H) * loc.frac_x, 100))

(***************************************************************************)
(* The inflate step of paddleocr_det, applied to one merged rectangle      *)
(***************************************************************************)
InflateApply ==
    /\ pc = "inflate_entry"
    /\ loc' = [loc EXCEPT !.r = InflateRect(loc.given, loc.H, loc.W, loc.median_h)]
    /\ pc' = "done"
    /\ ret' = Returned(<<>>)
    /\ UNCHANGED <<params, roi, files>>

\* merged rectangles come from contours, so they lie inside the map; their
\* heights are at most MaxRectH here (the median height is one of them)
MaxRectH == 12

InflateMaps == {<<15, 24>>, <<32, 128>>}

InflateRects(H, W) ==
    {r \in [x : {0, 1, 7, W - 8, W - 1}, y : {0, 1, H \div 2, H - 1},
            width : {1, 8, W - 8, W}, height : {1, 3, MaxRectH}] :
        r.x + r.width <= W /\ r.y + r.height <= H}

InflateInit ==
    /\ pc = "inflate_entry"
    /\ params = NoParams
    /\ roi = Roi(<<>>, <<>>)
    /\ ret = Running
    /\ files = NoImages
    /\ \E hw \in InflateMaps, mh \in {1, 3, MaxRectH} :
          \E r \in InflateRects(hw[1], hw[2]) :
             loc = [fn |-> "inflate", given |-> r, r |-> r, H |-> hw[1], W |-> hw[2],
                    median_h |-> mh]

InflateNext ==
    \/ InflateApply

SpecInflate == InflateInit /\ [][InflateNext]_vars

\* C27: the inflated rectangle contains the merged rectangle it was made
\* from and lies inside the map, with width and height at least 1.
C27_InflateContainsOriginal ==
    (loc.fn = "inflate" /\ pc = "done") =>
        /\ loc.r.x <= loc.given.x
        /\ loc.r.y <= loc.given.y
        /\ loc.r.x + loc.r.width >= loc.given.x + loc.given.width
        /\ loc.r.y + loc.r.height >= loc.given.y + loc.given.height
        /\ 0 <= loc.r.x /\ loc.r.x + loc.r.width <= loc.W
        /\ 0 <= loc.r.y /\ loc.r.y + loc.r.height <= loc.H
        /\ loc.r.width >= 1 /\ loc.r.height >= 1

\* a wide, thin rectangle in the map's top left corner (aspect ratio above 10
\* after the base pad, so it is thickened) that was clamped on two sides
C27_Witness ==
    /\ loc.fn = "inflate" /\ pc = "done"
    /\ loc.given.x = 0 /\ loc.given.y = 0
    /\ loc.given.width > 10 * (loc.given.height + 2 * loc.median_h)
    /\ loc.r.x = 0 /\ loc.r.y = 0
    /\ loc.r.height > loc.given.height
    /\ loc.r.width > loc.given.width

(***************************************************************************)
(* Filter path and fallback path                                           *)
(***************************************************************************)
\* positions, in post-merge order, of the rectangles that pass all four filters
DetPassing ==
    {i \in 1..Len(loc.rects) :
        FilterVerdict(loc.rects[i],
                      region_score_rect(DetChosen.data, loc.H, loc.W, loc.rects[i]),
                      loc.H, loc.median_h, params.det_box_thresh) = "keep"}

DetPassingAt(k) ==
    CHOOSE i \in DetPassing : Cardinality({j \in DetPassing : j <= i}) = k

\* the passing rectangles as Detections, the first n of them
DetPassingDetections(n) ==
    [k \in 1..n |->
        Detection("text_region",
                  MapToFrame(loc.rects[DetPassingAt(k)], DetRoiBox, loc.H, loc.W),
                  region_score_rect(DetChosen.data, loc.H, loc.W,
                                    loc.rects[DetPassingAt(k)]))]

\* C28: when the invocation ends, either no rectangle existed and the ROI is
\* as it was (nothing added, scaling bbox kept), or some rectangle passed the
\* four filters and the Detections added are the passing rectangles in
\* post-merge order, cut to det_max_candidates, none of them from the
\* fallback, or none passed and the Detections added are the fallback's.
C28_FilterAndFallbackExclusive ==
    [][(loc.fn = "paddleocr_det" /\ "rects" \in DOMAIN loc
          /\ pc # "done" /\ pc' = "done") =>
         IF loc.rects = <<>> THEN roi' = roi
         ELSE IF DetPassing # {}
         THEN /\ loc.path # "fallback"
              /\ roi'.objects = roi.objects \o
                    DetPassingDetections(Min2(params.det_max_candidates,
                                              Cardinality(DetPassing)))
         ELSE /\ loc.path = "fallback"
              /\ roi'.objects = roi.objects \o loc.outs
              /\ loc.outs # <<>>]_vars

(***************************************************************************)
(* crop_text_regions_filter                                                *)
(***************************************************************************)
\* an object of type HAILO_DETECTION (the others here are classifications)
IsDetection(o) == "bbox" \in DOMAIN o

\* hailo_common::get_hailo_detections(roi)
get_hailo_detections(r) == SelectSeq(r.objects, IsDetection)

KeepsTextRegionOnly(d) == d.label = "text_region"

\* the loop's push_back: every detection is kept, whatever its label
KeepsDetection(d) == TRUE

\* the first loop: text_detections
CropFilterCollect ==
    /\ pc = "filter_entry"
    /\ loc' = [loc EXCEPT !.text_detections =
                             SelectSeq(get_hailo_detections(roi), KeepsDetection)]
    /\ pc' = "filter_collected"
    /\ UNCHANGED <<params, roi, ret, files>>

\* roi->remove_objects_typed(HAILO_DETECTION)
CropFilterRemoveTyped ==
    /\ pc = "filter_collected"
    /\ roi' = [roi EXCEPT !.objects = SelectSeq(@, LAMBDA o : ~IsDetection(o))]
    /\ pc' = "filter_removed"
    /\ UNCHANGED <<params, loc, ret, files>>

\* the second loop: roi->add_object for every kept detection
CropFilterAddBack ==
    /\ pc = "filter_removed"
    /\ roi' = [roi EXCEPT !.objects = @ \o loc.text_detections]
    /\ pc' = "done"
    /\ ret' = Returned(<<>>)
    /\ UNCHANGED <<params, loc, files>>

\* the ROI carries at most MaxFilterObjs objects
MaxFilterObjs == 3

CropFilterObjPool ==
    { Detection("text_region", BBox(0, 0, ONE \div 2, ONE \div 4), Pct(90)),
      Detection("text_region", BBox(ONE \div 2, ONE \div 2, ONE \div 4, ONE \div 4), Pct(60)),
      Detection("person", BBox(ONE \div 4, 0, ONE \div 2, ONE), Pct(80)),
      Detection("", UnitBox, Pct(10)),
      Classification("text_region", <<"A">>, Pct(50)) }

CropFilterInit ==
    /\ pc = "filter_entry"
    /\ params = NoParams
    /\ ret = Running
    /\ files = NoImages
    /\ \E n \in 0..MaxFilterObjs : \E objs \in [1..n -> CropFilterObjPool] :
          /\ roi = Roi(<<>>, objs)
          /\ loc = [fn |-> "crop_text_regions_filter", given |-> objs,
                    text_detections |-> <<>>]

CropFilterNext ==
    \/ CropFilterCollect
    \/ CropFilterRemoveTyped
    \/ CropFilterAddBack

SpecCropFilter == CropFilterInit /\ [][CropFilterNext]_vars

====
